---- MODULE Spec2Model ----
(***************************************************************************)
(* A model of prism/prism.py: the schema helpers (schema_compact,          *)
(* table_to_bucket_schema), the paged lookups of the Prism class           *)
(* (tables_get, buckets_get, dataChanges_get), and buckets_create and      *)
(* buckets_complete.                                                       *)
(*                                                                         *)
(* Python values are modelled as follows.  A dict is a function whose      *)
(* domain is its set of keys, a list is a sequence, a str is a string, an  *)
(* int an integer and a bool a boolean.  None and the values that are not  *)
(* dicts are records with the single key "pytype", which no dict of the    *)
(* program carries.  Dicts and lists are mutable objects: a variable that  *)
(* holds one holds the current value of that object, and an operation      *)
(* that mutates its argument assigns the variable of the argument.         *)
(***************************************************************************)
EXTENDS Integers, Sequences, FiniteSets, TLC

VARIABLES
    pc,         \* position of the calling program
    schema,     \* the caller's schema object (mutable dict), current value
    schema0,    \* the value of the caller's schema when the program started
    inner,      \* the object returned by schema_compact(schema)
    outer,      \* the object returned by schema_compact(inner)
    again,      \* the object returned by a later schema_compact(schema)
    table0,     \* the value of the argument of table_to_bucket_schema at the call
    bucket,     \* the object returned by table_to_bucket_schema
    exc,        \* the exception that ended the last call, "" when it returned
    pos,        \* position of the running tables_get / buckets_get / dataChanges_get
    fn,         \* the lookup method that was called
    args,       \* its arguments
    serverTotal,\* the number of items the remote service holds
    params,     \* the local request parameters (limit, offset, type, name)
    search,     \* the local variable search (searching in dataChanges_get)
    data,       \* the accumulated list (return_tables["data"] and its likes)
    requests,   \* the requests sent so far, in order
    responses,  \* what each request was answered with: status and page length
    ret,        \* the value the method returned
    bpos,       \* position of the running buckets_create / buckets_complete
    bfn,        \* the bucket method that was called
    bargs,      \* its arguments
    schema_file,     \* what open(schema) and json.load gave, when schema is a file name
    new_bucket_name, \* the local new_bucket_name of buckets_create
    table_schema,    \* the local table_schema: the caller's dict when schema is a dict
    bret,       \* the value the bucket method returned
    fpos,       \* position of the running buckets_files / fileContainers_load
    ffn,        \* the staging method that was called
    fargs,      \* its arguments
    target_files,    \* the part of its local target_files still to iterate over
    results,    \* its local results
    resolved_fid,    \* the local resolved_fid of fileContainers_load
    fret,       \* the value the staging method returned
    lpos,       \* position of the running upload_file / truncate_table
    lfn,        \* the function that was called
    largs,      \* its arguments
    lret,       \* the value it returned
    prev,       \* the outcome of the earlier call, when a second one is compared with it
    bearer_token,            \* self.bearer_token
    bearer_token_timestamp,  \* self.bearer_token_timestamp
    CONTENT_APP_JSON,        \* the dict self.CONTENT_APP_JSON
    CONTENT_FORM,            \* the dict self.CONTENT_FORM
    clock,      \* time.time(), in seconds
    issued,     \* the number of tokens the authorization service has issued
    issued_at_reset, \* what issued was when reset_bearer_token was last called
    token_requests,  \* the requests sent to the token endpoint, with their answers
    sent_headers     \* the headers of each request in requests, in order

schemaVars == <<pc, schema, schema0, inner, outer, again, table0, bucket>>

pagerVars == <<pos, fn, args, serverTotal, params, search, data, requests, responses, ret>>

bucketVars == <<bpos, bfn, bargs, schema_file, new_bucket_name, table_schema, bret>>

stageVars == <<fpos, ffn, fargs, target_files, results, resolved_fid, fret>>

loadVars == <<stageVars, lpos, lfn, largs, lret, prev>>

authVars == <<bearer_token, bearer_token_timestamp, CONTENT_APP_JSON, CONTENT_FORM,
              clock, issued, issued_at_reset, token_requests, sent_headers>>

vars == <<schemaVars, exc, pagerVars, bucketVars, loadVars, authVars>>

(***************************************************************************)
(* Python values and the dict, list and str operations the code uses.      *)
(***************************************************************************)
None == [pytype |-> "NoneType"]

\* A value that is no dict: the empty list.
NotADict == [pytype |-> "list", v |-> <<>>]

\* An int and a str held where None may be held too.
PyInt(n) == [pytype |-> "int", v |-> n]

PyStr(t) == [pytype |-> "str", v |-> t]

IsNone(x) == x["pytype"] = "NoneType"

IsInt(x) == x["pytype"] = "int"

IsStr(x) == x["pytype"] = "str"

IsDict(x) == "pytype" \notin DOMAIN x

\* k in d
Has(d, k) == k \in DOMAIN d

\* del d[k]
Del(d, k) == [j \in DOMAIN d \ {k} |-> d[j]]

\* d[k] = v
Put(d, k, v) == [j \in DOMAIN d \cup {k} |-> IF j = k THEN v ELSE d[j]]

\* s.startswith(p)
StartsWith(s, p) == Len(s) >= Len(p) /\ SubSeq(s, 1, Len(p)) = p

\* p in s, for strings
Contains(s, p) == \E i \in 1..(Len(s) - Len(p) + 1) : SubSeq(s, i, i + Len(p) - 1) = p

(***************************************************************************)
(* schema_compact                                                          *)
(***************************************************************************)
AllowedKeys ==
    {"name", "id", "fields", "tags", "categories", "displayName",
     "description", "documentation", "enableForAnalysis"}

\* compact_fields with the test of line 180 ("WPA" anywhere in the name).
compact_fields_anywhere(fields) ==
    SelectSeq(fields, LAMBDA fld : ~Contains(fld["name"], "WPA"))

\* The list comprehension of line 111: the fields that are not "WPA_*".
compact_fields(fields) ==
    SelectSeq(fields, LAMBDA fld : ~StartsWith(fld["name"], "WPA_"))

\* fld["type"] after lines 123-127.
compact_type(type) ==
    IF Has(type, "descriptor")
    THEN Del(Put(type, "id", "Schema_Field_Type=" \o type["descriptor"]), "descriptor")
    ELSE type

\* One pass of the loop body, lines 115-127, on the field it is given.
compact_field(fld, ordinal) ==
    LET f1 == Put(fld, "ordinal", ordinal + 1)
        f2 == IF Has(f1, "fieldId") THEN Del(f1, "fieldId") ELSE f1
        f3 == IF Has(f2, "id") THEN Del(f2, "id") ELSE f2
    IN  IF Has(f3, "type") THEN Put(f3, "type", compact_type(f3["type"])) ELSE f3

\* compact_keys with the deletions made on another dict than compact_schema.
compact_keys_kept(d) == d

\* Lines 129-145: drop the top-level attributes outside the allow-list.
compact_keys(d) == [k \in DOMAIN d \cap AllowedKeys |-> d[k]]

\* The value schema_compact returns.  compact_schema is a deep copy of the
\* argument; its fields are filtered at line 111 and are not touched by the
\* loop of lines 113-127, which indexes the argument (schema["fields"]).
schema_compact(s) ==
    IF ~IsDict(s) THEN None
    ELSE LET compact_schema ==
                 IF Has(s, "fields")
                 THEN Put(s, "fields", compact_fields(s["fields"]))
                 ELSE s
         IN  compact_keys(compact_schema)

\* The argument object after the call: the loop of lines 113-127 runs
\* len(compact_schema["fields"]) times over schema["fields"][ordinal].
schema_compact_arg(s) ==
    IF ~IsDict(s) \/ ~Has(s, "fields") THEN s
    ELSE LET n == Len(compact_fields(s["fields"]))
         IN  Put(s, "fields",
                 [i \in 1..Len(s["fields"]) |->
                     IF i <= n THEN compact_field(s["fields"][i], i - 1)
                     ELSE s["fields"][i]])

(***************************************************************************)
(* table_to_bucket_schema                                                  *)
(***************************************************************************)
DefaultParseOptions ==
    [fieldsDelimitedBy |-> ",",
     fieldsEnclosedBy |-> "\"",
     headerLinesToIgnore |-> 1,
     charset |-> [id |-> "Encoding=UTF-8"],
     type |-> [id |-> "Schema_File_Type=Delimited"]]

TrimmedAttrs == {"id", "displayName", "fieldId", "required", "externalId"}

\* Line 169: the guard that makes the function return None.  "fields" not in
\* table looks among the keys of a dict, the items of a list and the
\* substrings of a str; on an int it raises TypeError and nothing is returned.
bucket_invalid(table) ==
    \/ table = None
    \/ IF IsDict(table) THEN ~Has(table, "fields")
       ELSE IF table["pytype"] = "list"
            THEN \A i \in 1..Len(table["v"]) : table["v"][i] # "fields"
       ELSE IF IsStr(table) THEN ~Contains(table["v"], "fields")
       ELSE FALSE

\* Line 180: fields[:] = [x for x in fields if "WPA" not in x["name"]]
bucket_fields(fields) ==
    SelectSeq(fields, LAMBDA x : ~Contains(x["name"], "WPA"))

\* Lines 186-190 on one field; fld["externalId"] must exist.
operation_key(fld) == Put(fld, "useAsOperationKey", fld["externalId"] = TRUE)

\* Lines 194-197 on one field.
trim_field(fld) == [k \in DOMAIN fld \ TrimmedAttrs |-> fld[k]]

\* The positions of the kept fields at which fld["externalId"] raises KeyError.
bucket_key_errors(table) ==
    LET kept == bucket_fields(table["fields"])
    IN  {i \in 1..Len(kept) : ~Has(kept[i], "externalId")}

\* The exception table_to_bucket_schema ends with, "" when it returns.
\* A value that is no dict raises TypeError: an int at line 169 (it is not
\* iterable), a list or a str holding "fields" at line 175 (table["fields"]).
bucket_exc(table) ==
    IF bucket_invalid(table) THEN ""
    ELSE IF ~IsDict(table) THEN "TypeError"
    ELSE IF bucket_key_errors(table) # {} THEN "KeyError" ELSE ""

\* The list object `fields` (which is table["fields"]) when the function ends:
\* filtered in place, then updated field by field up to the first KeyError,
\* then trimmed when no KeyError occurred.
bucket_fields_final(table) ==
    LET kept == bucket_fields(table["fields"])
        bad == bucket_key_errors(table)
        first == IF bad = {} THEN Len(kept) + 1
                 ELSE CHOOSE i \in bad : \A j \in bad : i <= j
    IN  [i \in 1..Len(kept) |->
            IF bad = {} THEN trim_field(operation_key(kept[i]))
            ELSE IF i < first THEN operation_key(kept[i])
            ELSE kept[i]]

\* bucket_parse_options with the defaults attached whatever the table holds.
bucket_parse_options_default(table) == DefaultParseOptions

\* Lines 199-210.
bucket_parse_options(table) ==
    IF Has(table, "parseOptions") THEN table["parseOptions"] ELSE DefaultParseOptions

\* The value table_to_bucket_schema returns (None also stands for the call
\* that raised, which returns nothing; bucket_exc tells the two apart).
table_to_bucket_schema(table) ==
    IF bucket_invalid(table) \/ bucket_exc(table) # "" THEN None
    ELSE [schemaVersion |-> [id |-> "Schema_Version=1.0"],
          parseOptions |-> bucket_parse_options(table),
          fields |-> bucket_fields_final(table)]

\* The argument object after the call: its fields list is the list the
\* function worked on.
table_to_bucket_schema_arg(table) ==
    IF bucket_invalid(table) \/ ~IsDict(table) THEN table
    ELSE Put(table, "fields", bucket_fields_final(table))

\* Nothing is staged or loaded: no staging method and no load function has
\* been called.  No token is held, as __init__ leaves it, and the shared
\* header dicts hold their Content-Type.
LoadIdle ==
    /\ fpos = "idle"
    /\ ffn = ""
    /\ fargs = None
    /\ target_files = <<>>
    /\ results = None
    /\ resolved_fid = None
    /\ fret = None
    /\ lpos = "idle"
    /\ lfn = ""
    /\ largs = None
    /\ lret = None
    /\ prev = None
    /\ bearer_token = None
    /\ bearer_token_timestamp = None
    /\ CONTENT_APP_JSON = Put(<<>>, "Content-Type", "application/json")
    /\ CONTENT_FORM = Put(<<>>, "Content-Type", "application/x-www-form-urlencoded")
    /\ clock = 0
    /\ issued = 0
    /\ issued_at_reset = 0
    /\ token_requests = <<>>
    /\ sent_headers = <<>>

(***************************************************************************)
(* The schemas the calling program starts from.                            *)
(***************************************************************************)
MaxFields == 2

FieldPool ==
    { [name |-> "a", externalId |-> TRUE, id |-> "f1", fieldId |-> "F1",
       ordinal |-> 5, type |-> [id |-> "t1", descriptor |-> "Text"]],
      [name |-> "WPA_b", externalId |-> FALSE, ordinal |-> 1],
      [name |-> "xWPAy", externalId |-> FALSE, displayName |-> "X", required |-> TRUE],
      [name |-> "c"],
      [name |-> "d", externalId |-> FALSE, ordinal |-> 1,
       type |-> [id |-> "Schema_Field_Type=Text"]] }

FieldLists == UNION {[1..n -> FieldPool] : n \in 0..MaxFields}

TopPool ==
    { <<>>,
      [id |-> "T1", name |-> "tab", stats |-> "rows",
       parseOptions |-> [fieldsDelimitedBy |-> ";",
                         fieldsEnclosedBy |-> "'",
                         headerLinesToIgnore |-> 0,
                         charset |-> [id |-> "Encoding=UTF-16"],
                         type |-> [id |-> "Schema_File_Type=Delimited"]]],
      [id |-> "T1", displayName |-> "Tab", enableForAnalysis |-> TRUE] }

Schemas ==
    {None, NotADict, [pytype |-> "list", v |-> <<"fields">>], PyStr("fields"), PyInt(5)}
    \cup TopPool
    \cup {Put(top, "fields", flds) : top \in TopPool, flds \in FieldLists}

(***************************************************************************)
(* The calling program: it evaluates                                       *)
(*     schema_compact(schema_compact(schema)) == schema_compact(schema)    *)
(* left to right on its schema object, or calls table_to_bucket_schema on  *)
(* the schema object.                                                      *)
(***************************************************************************)
Init ==
    /\ pc = "start"
    /\ schema \in Schemas
    /\ schema0 = schema
    /\ inner = None
    /\ outer = None
    /\ again = None
    /\ table0 = None
    /\ bucket = None
    /\ exc = ""
    /\ pos = "idle"
    /\ fn = ""
    /\ args = None
    /\ serverTotal = 0
    /\ params = None
    /\ search = FALSE
    /\ data = <<>>
    /\ requests = <<>>
    /\ responses = <<>>
    /\ ret = None
    /\ bpos = "idle"
    /\ bfn = ""
    /\ bargs = None
    /\ schema_file = None
    /\ new_bucket_name = ""
    /\ table_schema = None
    /\ bret = None
    /\ LoadIdle

\* inner = schema_compact(schema)
CompactInner ==
    /\ pc = "start"
    /\ inner' = schema_compact(schema)
    /\ schema' = schema_compact_arg(schema)
    /\ pc' = "inner"
    /\ UNCHANGED <<schema0, outer, again, table0, bucket, exc, pagerVars, bucketVars, loadVars, authVars>>

\* outer = schema_compact(inner)
CompactOuter ==
    /\ pc = "inner"
    /\ outer' = schema_compact(inner)
    /\ inner' = schema_compact_arg(inner)
    /\ pc' = "outer"
    /\ UNCHANGED <<schema, schema0, again, table0, bucket, exc, pagerVars, bucketVars, loadVars, authVars>>

\* again = schema_compact(schema), the right-hand side of the comparison
CompactAgain ==
    /\ pc = "outer"
    /\ again' = schema_compact(schema)
    /\ schema' = schema_compact_arg(schema)
    /\ pc' = "compared"
    /\ UNCHANGED <<schema0, inner, outer, table0, bucket, exc, pagerVars, bucketVars, loadVars, authVars>>

\* bucket = table_to_bucket_schema(schema)
ToBucket ==
    /\ pc = "start"
    /\ table0' = schema
    /\ bucket' = table_to_bucket_schema(schema)
    /\ exc' = bucket_exc(schema)
    /\ schema' = table_to_bucket_schema_arg(schema)
    /\ pc' = "bucket"
    /\ UNCHANGED <<schema0, inner, outer, again, pagerVars, bucketVars, loadVars, authVars>>

\* bucket = table_to_bucket_schema(inner): the two steps of lines 941-947
CompactToBucket ==
    /\ pc = "inner"
    /\ inner # None
    /\ table0' = inner
    /\ bucket' = table_to_bucket_schema(inner)
    /\ exc' = bucket_exc(inner)
    /\ inner' = table_to_bucket_schema_arg(inner)
    /\ pc' = "bucket"
    /\ UNCHANGED <<schema, schema0, outer, again, pagerVars, bucketVars, loadVars, authVars>>

Next == CompactInner \/ CompactOuter \/ CompactAgain \/ ToBucket \/ CompactToBucket

Spec == Init /\ [][Next]_vars

(***************************************************************************)
(* Strings: str.lower, str.replace(" ", "_") and urllib.parse.quote, on    *)
(* the alphabet of the names used here (letters, digits, "_" and " ").     *)
(***************************************************************************)
UpperToLower ==
    [c \in {"A", "B", "C", "D", "E", "F", "G", "H", "I", "J", "K", "L", "M",
            "N", "O", "P", "Q", "R", "S", "T", "U", "V", "W", "X", "Y", "Z"} |->
        CASE c = "A" -> "a" [] c = "B" -> "b" [] c = "C" -> "c" [] c = "D" -> "d"
          [] c = "E" -> "e" [] c = "F" -> "f" [] c = "G" -> "g" [] c = "H" -> "h"
          [] c = "I" -> "i" [] c = "J" -> "j" [] c = "K" -> "k" [] c = "L" -> "l"
          [] c = "M" -> "m" [] c = "N" -> "n" [] c = "O" -> "o" [] c = "P" -> "p"
          [] c = "Q" -> "q" [] c = "R" -> "r" [] c = "S" -> "s" [] c = "T" -> "t"
          [] c = "U" -> "u" [] c = "V" -> "v" [] c = "W" -> "w" [] c = "X" -> "x"
          [] c = "Y" -> "y" [] c = "Z" -> "z"]

LowerChar(c) == IF c \in DOMAIN UpperToLower THEN UpperToLower[c] ELSE c

RECURSIVE Lower(_)
\* s.lower()
Lower(s) ==
    IF s = "" THEN ""
    ELSE LowerChar(SubSeq(s, 1, 1)) \o Lower(SubSeq(s, 2, Len(s)))

RECURSIVE SpacesToUnderscores(_)
\* s.replace(" ", "_")
SpacesToUnderscores(s) ==
    IF s = "" THEN ""
    ELSE (IF SubSeq(s, 1, 1) = " " THEN "_" ELSE SubSeq(s, 1, 1))
         \o SpacesToUnderscores(SubSeq(s, 2, Len(s)))

RECURSIVE Quote(_)
\* urlparse.quote(s): a space becomes %20, the other characters of the
\* alphabet are safe and stay.
Quote(s) ==
    IF s = "" THEN ""
    ELSE (IF SubSeq(s, 1, 1) = " " THEN "%20" ELSE SubSeq(s, 1, 1))
         \o Quote(SubSeq(s, 2, Len(s)))

(***************************************************************************)
(* The bearer token and the request headers.  http_get, http_post,         *)
(* http_patch and http_put add an Authorization entry to the headers dict  *)
(* they are given when it has none; the token comes from get_bearer_token, *)
(* which asks the authorization service for one when none is held or the   *)
(* held one is too old.  Every request of every API method goes through    *)
(* them: sent_headers holds the headers of each request in requests, and   *)
(* token_requests the requests to the token endpoint with their answers.   *)
(***************************************************************************)
TokenLifetime == 900

MaxWire == 4

MaxTime == 1400

\* r.json()["access_token"] of the n-th token the service issues.
AccessToken(n) == "token" \o ToString(n)

\* "Authorization" not in headers and caller != "create_bearer_token"
needs_token(headers, caller) ==
    ~Has(headers, "Authorization") /\ caller # "create_bearer_token"

\* The token and header state of the program and what went out so far.
AuthState ==
    [bearer_token |-> bearer_token,
     bearer_token_timestamp |-> bearer_token_timestamp,
     CONTENT_APP_JSON |-> CONTENT_APP_JSON,
     issued |-> issued,
     token_requests |-> token_requests,
     sent_headers |-> sent_headers]

\* create_bearer_token when the service answers with status: the form
\* headers are posted as they are, before the request the caller is about
\* to send.
create_bearer_token(a, status) ==
    LET request ==
            [method |-> "POST", url |-> "/token",
             headers |-> IF needs_token(CONTENT_FORM, "create_bearer_token")
                         THEN Put(CONTENT_FORM, "Authorization", "Bearer ")
                         ELSE CONTENT_FORM,
             status_code |-> status,
             before |-> Len(a.sent_headers) + 1]
    IN  IF status = 200
        THEN [a EXCEPT !.bearer_token = PyStr(AccessToken(a.issued + 1)),
                       !.bearer_token_timestamp = PyInt(clock),
                       !.issued = a.issued + 1,
                       !.token_requests = Append(@, request)]
        ELSE [a EXCEPT !.bearer_token = None,
                       !.bearer_token_timestamp = None,
                       !.token_requests = Append(@, request)]

token_expired_at(age) == age >= TokenLifetime

token_expired(age) == age > TokenLifetime

\* get_bearer_token, lines 429-430: status is the answer of the service to
\* the token request, if one is sent.
get_bearer_token(a, status) ==
    IF a.bearer_token = None \/ token_expired(clock - a.bearer_token_timestamp["v"])
    THEN create_bearer_token(a, status)
    ELSE a

\* What get_bearer_token returns when self.bearer_token is tok.
token_string(tok) == IF tok = None THEN "" ELSE tok["v"]

\* One call of http_get, http_post, http_patch or http_put by the API method
\* caller: shared says that it passes headers=self.CONTENT_APP_JSON and not
\* None, put that the method is http_put.  The headers dict is the caller's.
http_call(a, status, caller, shared, put) ==
    LET headers == IF shared THEN a.CONTENT_APP_JSON ELSE <<>>
        b == IF needs_token(headers, caller) THEN get_bearer_token(a, status) ELSE a
        signed == IF needs_token(headers, caller)
                  THEN Put(headers, "Authorization",
                           "Bearer " \o token_string(b.bearer_token))
                  ELSE headers
        typed == IF put /\ ~Has(signed, "Content-Type")
                 THEN Put(signed, "Content-Type", "application/json")
                 ELSE signed
    IN  [b EXCEPT !.sent_headers = Append(@, typed),
                  !.CONTENT_APP_JSON = IF shared THEN typed ELSE @]

\* The token and the headers in a step of the API method caller: the
\* request the step added to requests, if it added one, went through one
\* http call, and status is the answer to the token request of that call.
HttpSent(caller, shared, put) ==
    \E status \in {200, 401} :
       LET a == IF Len(requests') > Len(requests)
                THEN http_call(AuthState, status, caller, shared, put)
                ELSE AuthState
       IN  /\ bearer_token' = a.bearer_token
           /\ bearer_token_timestamp' = a.bearer_token_timestamp
           /\ CONTENT_APP_JSON' = a.CONTENT_APP_JSON
           /\ issued' = a.issued
           /\ token_requests' = a.token_requests
           /\ sent_headers' = a.sent_headers
           /\ UNCHANGED <<CONTENT_FORM, clock, issued_at_reset>>

(***************************************************************************)
(* The remote service.  It holds serverTotal items per resource; item i    *)
(* is ItemAt(f, i).  To a list request it answers with a status other      *)
(* than 200, or with status 200 and a body {total, data}: data is the      *)
(* page of the items that match the name filter, at most `limit` of them   *)
(* from `offset` on, and total is the length of that page or the number    *)
(* of items the service holds.  A request is recorded with the parameters  *)
(* the lookup method builds; the headers http_get sends with it are kept   *)
(* in sent_headers.                                                        *)
(***************************************************************************)
MaxRequests == 4

PageSizeTables == 100

PageSizeBuckets == 100

PageSizeDataChanges == 500

ItemAt(f, i) ==
    LET n == ToString(i)
        names == CASE i % 3 = 1 -> [name |-> "Sales_" \o n, displayName |-> "Sales " \o n]
                   [] i % 3 = 2 -> [name |-> "hr_" \o n, displayName |-> "HR SALES " \o n]
                   [] OTHER -> [name |-> "Ops_" \o n, displayName |-> "Ops " \o n]
    IN  IF f = "buckets_get"
        THEN [id |-> "B" \o n, name |-> names.name, displayName |-> names.displayName,
              targetDataset |-> IF i % 2 = 1
                                THEN [id |-> "T1", descriptor |-> "Tab_1"]
                                ELSE [id |-> "T2", descriptor |-> "tab_2"]]
        ELSE [id |-> "I" \o n, name |-> names.name, displayName |-> names.displayName]

\* The fields of a table, which the service sends when the full format is
\* asked for.
TableFields(i) ==
    IF i % 2 = 1
    THEN << [name |-> "a", displayName |-> "A", id |-> "f1", fieldId |-> "F1",
             ordinal |-> 1, required |-> TRUE, externalId |-> TRUE,
             type |-> [id |-> "Schema_Field_Type=Text", descriptor |-> "Text"]],
            [name |-> "WPA_LoadId", ordinal |-> 2, externalId |-> FALSE,
             type |-> [id |-> "Schema_Field_Type=Text", descriptor |-> "Text"]] >>
    ELSE << [name |-> "d", displayName |-> "D", id |-> "f2", fieldId |-> "F2",
             ordinal |-> 1, required |-> FALSE, externalId |-> FALSE,
             type |-> [id |-> "Schema_Field_Type=Numeric", descriptor |-> "Numeric"]] >>

\* The i-th item in the format a request asks for.
ItemInFormat(f, i, format) ==
    IF f = "tables_get" /\ format = "full"
    THEN Put(ItemAt(f, i), "fields", TableFields(i))
    ELSE ItemAt(f, i)

\* The name filter of a request as the service receives it: the params of
\* tables_get and buckets_get are encoded and decoded by the transport; the
\* URL of dataChanges_get carries quote(datachange_name), which the service
\* decodes, so it receives datachange_name.
RequestName(f, p) ==
    IF f = "dataChanges_get"
    THEN IF p["name_param"] = "" THEN None ELSE PyStr(p["name"])
    ELSE IF Has(p, "name") THEN PyStr(p["name"]) ELSE None

\* The indexes of the items the request selects, in the service's order.
ServerMatches(f, p) ==
    LET nm == RequestName(f, p)
    IN  SelectSeq([i \in 1..serverTotal |-> i],
                  LAMBDA i : IsNone(nm) \/ ItemAt(f, i)["name"] = nm["v"])

ServerPage(f, p) ==
    LET idx == ServerMatches(f, p)
        lo == (IF p["offset"] > 0 THEN p["offset"] ELSE 0) + 1
        hi == IF p["offset"] + p["limit"] < Len(idx) THEN p["offset"] + p["limit"]
              ELSE Len(idx)
    IN  [k \in 1..(hi - lo + 1) |-> ItemInFormat(f, idx[lo + k - 1], p["type"])]

Responses(f, p) ==
    LET page == ServerPage(f, p)
    IN  {[status_code |-> 500]}
        \cup {[status_code |-> 200, json |-> [total |-> t, data |-> page]] :
                 t \in {Len(page), serverTotal}}

\* The answers to a request for one item by ID: the item that has this ID
\* if the service holds it, in the format asked for, or a failure.
ResponsesById(f, p) ==
    LET format == IF Has(p, "format") THEN p["format"] ELSE p["type"]
    IN  {[status_code |-> 404]}
        \cup {[status_code |-> 200, json |-> ItemInFormat(f, i, format)] :
                 i \in {j \in 1..serverTotal : ItemAt(f, j)["id"] = p["id"]}}

\* return_tables / return_buckets / data_changes once total is set.
PagedResult(d) == [total |-> Len(d), data |-> d]

\* What the methods read of a response: response.status_code and, of a page,
\* len(response.json()["data"]).
Received(r) ==
    [status_code |-> r.status_code,
     items |-> IF r.status_code = 200 /\ Has(r.json, "data") THEN Len(r.json.data) ELSE 0]

\* A failure that discards what the earlier pages gave.
failed_result_empty(d) == PagedResult(<<>>)

\* Lines 551-555, 790-794 and 1166-1169 with lines 596-597, 836-838 and
\* 1192-1194: a response other than 200 leaves the loop, and the method
\* returns what it has accumulated in d.
failed_result(d) == PagedResult(d)

\* A loop that goes on until a page comes back empty.
page_is_last_if_empty(n, limit) == n = 0

\* Lines 585, 825 and 1186: a page of n items answered a request for limit.
page_is_last(n, limit) == n < limit

\* A loop that asks for the page after the first one over and over.
next_page_fixed(p) == [p EXCEPT !.offset = p.limit]

\* Lines 593, 833 and 1190.
next_page(p) == [p EXCEPT !.offset = @ + p.limit]

(***************************************************************************)
(* tables_get                                                              *)
(***************************************************************************)
\* Lines 486-490.
tables_output_type(type_) ==
    IF IsNone(type_) \/ Lower(type_["v"]) \notin {"full", "summary", "permissions"}
    THEN "summary"
    ELSE Lower(type_["v"])

\* Line 521 evaluates offset >= 0 whenever limit is an int.
tables_exc(a) == IF IsInt(a.limit) /\ IsNone(a.offset) THEN "TypeError" ELSE ""

\* Lines 519-523.
tables_params_initial(a) ==
    [limit |-> IF IsInt(a.limit) /\ a.limit["v"] <= 100 THEN a.limit["v"] ELSE 20,
     offset |-> IF IsInt(a.limit) /\ a.offset["v"] >= 0 THEN a.offset["v"] ELSE 0,
     type |-> tables_output_type(a.type_)]

\* Lines 526-545.
tables_params(a) ==
    LET p == tables_params_initial(a)
    IN  IF ~a.search /\ ~IsNone(a.name)
        THEN [limit |-> 1, offset |-> 0, type |-> p.type,
              name |-> SpacesToUnderscores(a.name["v"])]
        ELSE IF a.search /\ ~IsNone(a.name)
        THEN [p EXCEPT !.limit = PageSizeTables, !.offset = 0]
        ELSE IF ~a.search /\ IsNone(a.limit)
        THEN [p EXCEPT !.limit = PageSizeTables, !.offset = 0]
        ELSE p

\* The local variable search after lines 526-545.
tables_search(a) ==
    IF ~a.search /\ ~IsNone(a.name) THEN a.search
    ELSE IF a.search /\ ~IsNone(a.name) THEN a.search
    ELSE IF ~a.search /\ IsNone(a.limit) THEN TRUE
    ELSE a.search

\* Lines 567-579.
tables_match(a, page) ==
    IF ~IsNone(a.name)
    THEN LET table_lower == Lower(a.name["v"])
         IN  SelectSeq(page, LAMBDA tab :
                 \/ Contains(Lower(tab["name"]), table_lower)
                 \/ Contains(Lower(tab["displayName"]), table_lower))
    ELSE page

NameArgs == {None, PyStr("sales"), PyStr("Sales 1")}

LimitArgs == {None, PyInt(-1), PyInt(0), PyInt(2), PyInt(101)}

OffsetArgs == {None, PyInt(-1), PyInt(0), PyInt(2)}

TypeArgs == {None, PyStr("Full"), PyStr("bogus")}

IdArgs == {None, PyStr("I1")}

TablesArgs ==
    [table_name : NameArgs, table_id : {None}, limit : LimitArgs,
     offset : OffsetArgs, type_ : TypeArgs, search : BOOLEAN]
    \cup [table_name : {None}, table_id : IdArgs \ {None}, limit : {None},
          offset : {None}, type_ : TypeArgs, search : {FALSE}]

\* tables_get(...) up to its first request, lines 484-545, for the arguments
\* in call.
TablesGetCall(call) ==
    /\ fn' = "tables_get"
    /\ args' = call
    /\ IF ~IsNone(call.id)
       THEN /\ pos' = "id"
            /\ params' = [id |-> call.id["v"],
                          format |-> tables_output_type(call.type_)]
            /\ UNCHANGED <<exc, search>>
       ELSE IF tables_exc(call) # ""
       THEN /\ pos' = "done"
            /\ exc' = tables_exc(call)
            /\ UNCHANGED <<params, search>>
       ELSE /\ pos' = "loop"
            /\ params' = tables_params(call)
            /\ search' = tables_search(call)
            /\ UNCHANGED exc

\* A call of tables_get by the user of the class.
TablesGet ==
    /\ pos = "idle"
    /\ \E a \in TablesArgs :
          TablesGetCall([name |-> a.table_name, id |-> a.table_id, limit |-> a.limit,
                         offset |-> a.offset, type_ |-> a.type_, search |-> a.search])
    /\ UNCHANGED <<schemaVars, authVars, loadVars, bucketVars, serverTotal, data, requests, responses, ret>>

\* One pass of the loop of lines 548-593, and lines 596-597 when it ends.
TablesFetch ==
    /\ pos = "loop" /\ fn = "tables_get"
    /\ Len(requests) < MaxRequests
    /\ requests' = Append(requests, params)
    /\ \E r \in Responses(fn, params) :
       /\ responses' = Append(responses, Received(r))
       /\ IF r.status_code # 200
          THEN /\ ret' = failed_result(data)
               /\ pos' = "done"
               /\ UNCHANGED <<data, params>>
          ELSE IF ~search /\ ~IsNone(args.name)
          THEN /\ ret' = r.json
               /\ pos' = "done"
               /\ UNCHANGED <<data, params>>
          ELSE LET tables == r.json
                   found == data \o tables_match(args, tables.data)
               IN  /\ data' = found
                   /\ IF page_is_last(Len(tables.data), params.limit) \/ ~search
                      THEN /\ ret' = PagedResult(found)
                           /\ pos' = "done"
                           /\ UNCHANGED params
                      ELSE /\ params' = next_page(params)
                           /\ UNCHANGED <<ret, pos>>
    /\ UNCHANGED <<schemaVars, loadVars, bucketVars, exc, fn, args, serverTotal, search>>
    /\ HttpSent("tables_get", FALSE, FALSE)

(***************************************************************************)
(* buckets_get                                                             *)
(***************************************************************************)
\* Line 742: type_.lower() is evaluated first, whatever type_ is.
buckets_exc(a) == IF IsNone(a.type_) THEN "AttributeError" ELSE ""

\* Line 742.
buckets_output_type(type_) ==
    IF Lower(type_["v"]) \in {"full", "summary"} THEN Lower(type_["v"]) ELSE "summary"

\* buckets_get if its else branch (lines 779-784) kept the caller's limit and
\* offset instead of overwriting them.
buckets_params_as_passed(a) ==
    LET p == [limit |-> IF ~IsNone(a.limit) THEN a.limit["v"] ELSE 100,
              offset |-> IF ~IsNone(a.offset) THEN a.offset["v"] ELSE 0,
              type |-> buckets_output_type(a.type_)]
    IN  IF ~a.search /\ ~IsNone(a.name)
        THEN [limit |-> 1, offset |-> 0, type |-> p.type, name |-> Quote(a.name["v"])]
        ELSE p

\* Lines 765-784: limit and offset are overwritten on both branches.
buckets_params(a) ==
    LET p == [limit |-> IF ~IsNone(a.limit) THEN a.limit["v"] ELSE 100,
              offset |-> IF ~IsNone(a.offset) THEN a.offset["v"] ELSE 0,
              type |-> buckets_output_type(a.type_)]
    IN  IF ~a.search /\ ~IsNone(a.name)
        THEN [limit |-> 1, offset |-> 0, type |-> p.type, name |-> Quote(a.name["v"])]
        ELSE [p EXCEPT !.limit = PageSizeBuckets, !.offset = 0]

\* The local variable search after lines 771-784.
buckets_search(a) == IF ~a.search /\ ~IsNone(a.name) THEN a.search ELSE TRUE

\* Lines 801-818; s is the local variable search.
buckets_match(a, s, page) ==
    IF ~IsNone(a.name)
    THEN SelectSeq(page, LAMBDA bck :
             \/ Contains(bck["name"], a.name["v"])
             \/ Contains(bck["displayName"], a.name["v"]))
    ELSE IF ~IsNone(a.table_id)
    THEN SelectSeq(page, LAMBDA bck : a.table_id["v"] = bck["targetDataset"]["id"])
    ELSE IF ~IsNone(a.table_name)
    THEN SelectSeq(page, LAMBDA bck :
             \/ a.table_name["v"] = bck["targetDataset"]["descriptor"]
             \/ (s /\ Contains(Lower(bck["targetDataset"]["descriptor"]),
                               Lower(a.table_name["v"]))))
    ELSE page

BucketsArgs ==
    [bucket_id : {None}, bucket_name : NameArgs, search : BOOLEAN,
     limit : {None, PyInt(2)}, offset : {None, PyInt(2)}, type_ : TypeArgs,
     table_id : {None, PyStr("T1")}, table_name : {None, PyStr("TAB_2")}]
    \cup [bucket_id : {PyStr("B1")}, bucket_name : {None}, search : {FALSE},
          limit : {None}, offset : {None}, type_ : TypeArgs,
          table_id : {None}, table_name : {None}]

\* buckets_get(...) up to its first request, lines 740-784.
BucketsGet ==
    /\ pos = "idle"
    /\ \E a \in BucketsArgs :
          LET call == [name |-> a.bucket_name, id |-> a.bucket_id, limit |-> a.limit,
                       offset |-> a.offset, type_ |-> a.type_, search |-> a.search,
                       table_id |-> a.table_id, table_name |-> a.table_name]
          IN  /\ fn' = "buckets_get"
              /\ args' = call
              /\ IF buckets_exc(call) # ""
                 THEN /\ pos' = "done"
                      /\ exc' = buckets_exc(call)
                      /\ UNCHANGED <<params, search>>
                 ELSE IF ~IsNone(call.id)
                 THEN /\ pos' = "id"
                      /\ params' = [id |-> call.id["v"],
                                    format |-> buckets_output_type(call.type_)]
                      /\ UNCHANGED <<exc, search>>
                 ELSE /\ pos' = "loop"
                      /\ params' = buckets_params(call)
                      /\ search' = buckets_search(call)
                      /\ UNCHANGED exc
    /\ UNCHANGED <<schemaVars, authVars, loadVars, bucketVars, serverTotal, data, requests, responses, ret>>

\* One pass of the loop of lines 786-833, and lines 836-838 when it ends.
BucketsFetch ==
    /\ pos = "loop" /\ fn = "buckets_get"
    /\ Len(requests) < MaxRequests
    /\ requests' = Append(requests, params)
    /\ \E r \in Responses(fn, params) :
       /\ responses' = Append(responses, Received(r))
       /\ IF r.status_code # 200
          THEN /\ ret' = failed_result(data)
               /\ pos' = "done"
               /\ UNCHANGED <<data, params>>
          ELSE IF ~search /\ ~IsNone(args.name)
          THEN /\ ret' = r.json
               /\ pos' = "done"
               /\ UNCHANGED <<data, params>>
          ELSE LET buckets == r.json
                   found == data \o buckets_match(args, search, buckets.data)
               IN  /\ data' = found
                   /\ IF page_is_last(Len(buckets.data), params.limit) \/ ~search
                      THEN /\ ret' = PagedResult(found)
                           /\ pos' = "done"
                           /\ UNCHANGED params
                      ELSE /\ params' = next_page(params)
                           /\ UNCHANGED <<ret, pos>>
    /\ UNCHANGED <<schemaVars, loadVars, bucketVars, exc, fn, args, serverTotal, search>>
    /\ HttpSent("buckets_get", FALSE, FALSE)

(***************************************************************************)
(* dataChanges_get.  params holds its locals: limit is search_limit,       *)
(* offset is search_offset, type is output_type, name_param is the query   *)
(* string suffix and name the text that name_param quotes; search holds    *)
(* the local searching.                                                    *)
(***************************************************************************)
\* Line 1107: type_.lower() is evaluated first, whatever type_ is.
dataChanges_exc(a) == IF IsNone(a.type_) THEN "AttributeError" ELSE ""

\* Line 1107.
dataChanges_output_type(type_) ==
    IF Lower(type_["v"]) \in {"summary", "full"} THEN Lower(type_["v"]) ELSE "summary"

\* Line 1112.
dataChanges_by_id(a) == ~IsNone(a.id) /\ IsStr(a.id) /\ Len(a.id["v"]) > 0

\* Line 1141.
dataChanges_named(a) == ~IsNone(a.name) /\ IsStr(a.name) /\ Len(a.name["v"]) > 0

\* The local searching after lines 1138-1155.
dataChanges_searching(a) == dataChanges_named(a) /\ a.search = TRUE

\* Lines 1129-1155.
dataChanges_params(a) ==
    LET search_limit == IF ~IsNone(a.limit) /\ IsInt(a.limit) /\ a.limit["v"] > 0
                        THEN a.limit["v"] ELSE PageSizeDataChanges
        search_offset == IF ~IsNone(a.offset) /\ IsInt(a.offset) /\ a.offset["v"] > 0
                         THEN a.offset["v"] ELSE 0
        type == dataChanges_output_type(a.type_)
    IN  IF dataChanges_named(a)
        THEN IF dataChanges_searching(a)
             THEN [limit |-> PageSizeDataChanges, offset |-> 0, type |-> type,
                   name_param |-> "", name |-> ""]
             ELSE [limit |-> 1, offset |-> 0, type |-> type,
                   name_param |-> "&name=" \o Quote(a.name["v"]),
                   name |-> a.name["v"]]
        ELSE [limit |-> search_limit, offset |-> search_offset, type |-> type,
              name_param |-> "", name |-> ""]

\* Lines 1175-1179.
dataChanges_match(a, page) ==
    SelectSeq(page, LAMBDA dtc :
        \/ Contains(Lower(dtc["name"]), Lower(a.name["v"]))
        \/ Contains(Lower(dtc["displayName"]), Lower(a.name["v"])))

DataChangesArgs ==
    [datachange_name : NameArgs \cup {PyStr("")}, datachange_id : {None, PyStr("")},
     limit : LimitArgs, offset : OffsetArgs, type_ : TypeArgs, search : BOOLEAN]
    \cup [datachange_name : {None}, datachange_id : IdArgs \ {None}, limit : {None},
          offset : {None}, type_ : TypeArgs, search : {FALSE}]

\* dataChanges_get(...) up to its first request, lines 1104-1161.
DataChangesGet ==
    /\ pos = "idle"
    /\ \E a \in DataChangesArgs :
          LET call == [name |-> a.datachange_name, id |-> a.datachange_id,
                       limit |-> a.limit, offset |-> a.offset, type_ |-> a.type_,
                       search |-> a.search]
          IN  /\ fn' = "dataChanges_get"
              /\ args' = call
              /\ IF dataChanges_exc(call) # ""
                 THEN /\ pos' = "done"
                      /\ exc' = dataChanges_exc(call)
                      /\ UNCHANGED <<params, search>>
                 ELSE IF dataChanges_by_id(call)
                 THEN /\ pos' = "id"
                      /\ params' = [id |-> call.id["v"],
                                    type |-> dataChanges_output_type(call.type_)]
                      /\ UNCHANGED <<exc, search>>
                 ELSE /\ pos' = "loop"
                      /\ params' = dataChanges_params(call)
                      /\ search' = dataChanges_searching(call)
                      /\ UNCHANGED exc
    /\ UNCHANGED <<schemaVars, authVars, loadVars, bucketVars, serverTotal, data, requests, responses, ret>>

\* One pass of the loop of lines 1163-1190, and lines 1192-1194 when it ends.
DataChangesFetch ==
    /\ pos = "loop" /\ fn = "dataChanges_get"
    /\ Len(requests) < MaxRequests
    /\ requests' = Append(requests, params)
    /\ \E r \in Responses(fn, params) :
       /\ responses' = Append(responses, Received(r))
       /\ IF r.status_code # 200
          THEN /\ ret' = failed_result(data)
               /\ pos' = "done"
               /\ UNCHANGED <<data, params>>
          ELSE LET return_json == r.json
                   found == IF search
                            THEN data \o dataChanges_match(args, return_json.data)
                            ELSE data \o return_json.data
               IN  /\ data' = found
                   /\ IF ~search \/ page_is_last(Len(return_json.data), params.limit)
                      THEN /\ ret' = PagedResult(found)
                           /\ pos' = "done"
                           /\ UNCHANGED params
                      ELSE /\ params' = next_page(params)
                           /\ UNCHANGED <<ret, pos>>
    /\ UNCHANGED <<schemaVars, loadVars, bucketVars, exc, fn, args, serverTotal, search>>
    /\ HttpSent("dataChanges_get", FALSE, FALSE)

\* The request by ID of tables_get (lines 494-507), buckets_get (746-756)
\* and dataChanges_get (1112-1122).
GetById ==
    /\ pos = "id"
    /\ requests' = Append(requests, params)
    /\ \E r \in ResponsesById(fn, params) :
          /\ responses' = Append(responses, Received(r))
          /\ ret' = IF r.status_code = 200 THEN r.json ELSE None
    /\ pos' = "done"
    /\ UNCHANGED <<schemaVars, loadVars, bucketVars, exc, fn, args, serverTotal, params, search, data>>
    /\ HttpSent(fn, FALSE, FALSE)

\* The numbers of items the service may hold: none, a few, one full page,
\* some pages and a short one (of tables and buckets, and of data changes).
ServerTotals == {0, 3, 100, 247, 500, 1003}

PagerInit ==
    /\ pc = "off"
    /\ schema = None
    /\ schema0 = None
    /\ inner = None
    /\ outer = None
    /\ again = None
    /\ table0 = None
    /\ bucket = None
    /\ exc = ""
    /\ pos = "idle"
    /\ fn = ""
    /\ args = None
    /\ serverTotal \in ServerTotals
    /\ params = None
    /\ search = FALSE
    /\ data = <<>>
    /\ requests = <<>>
    /\ responses = <<>>
    /\ ret = None
    /\ bpos = "idle"
    /\ bfn = ""
    /\ bargs = None
    /\ schema_file = None
    /\ new_bucket_name = ""
    /\ table_schema = None
    /\ bret = None
    /\ LoadIdle

PagerNext ==
    \/ TablesGet \/ TablesFetch
    \/ BucketsGet \/ BucketsFetch
    \/ DataChangesGet \/ DataChangesFetch
    \/ GetById

PagerSpec == PagerInit /\ [][PagerNext]_vars

(***************************************************************************)
(* buckets_create and buckets_complete.  buckets_create looks its target   *)
(* table up with tables_get, whose steps above run as the nested call; the *)
(* requests of both are logged in requests, in the order they are sent.    *)
(***************************************************************************)
\* The outcome of open(schema) and json.load when they fail.
Unreadable == [pytype |-> "unreadable"]

\* What the file named by schema may hold: nothing readable, a JSON list, or
\* a JSON object.
FileContents == {Unreadable, NotADict} \cup {s \in Schemas : IsDict(s)}

\* Lines 885-898: the call returns None at line 895 or 898.
schema_rejected(schema_arg, content) ==
    /\ schema_arg # None
    /\ ~IsDict(schema_arg)
    /\ IsStr(schema_arg) => content = Unreadable

\* Lines 883-891: table_schema when the schema was not rejected.
schema_loaded(schema_arg, content) ==
    IF schema_arg = None THEN None
    ELSE IF IsDict(schema_arg) THEN schema_arg
    ELSE content

\* Line 900.
no_target(a) == IsNone(a.target_id) /\ IsNone(a.target_name)

\* Lines 902-911: without target_id and target_name the schema must carry
\* "id" and "fields" ("id" not in a JSON list of objects is true).
target_missing(ts) ==
    ts = None \/ ~IsDict(ts) \/ ~Has(ts, "id") \/ ~Has(ts, "fields")

\* buckets_create if the name of the target had precedence over its ID.
lookup_call_name_first(a) ==
    [name |-> a.target_name,
     id |-> IF IsNone(a.target_name) THEN a.target_id ELSE None,
     limit |-> None, offset |-> None, type_ |-> PyStr("full"), search |-> FALSE]

\* Lines 914-916 and 922: the arguments of the call of tables_get; the ID
\* is used if provided, the name otherwise.
lookup_call(a) ==
    [name |-> IF IsNone(a.target_id) THEN a.target_name ELSE None,
     id |-> a.target_id,
     limit |-> None, offset |-> None, type_ |-> PyStr("full"), search |-> FALSE]

\* Lines 922-928, after the call by name: the exception that the result r
\* of tables_get raises, "" if none (tables["data"][0] of an empty list).
lookup_exc(call, r) ==
    IF IsNone(call.id) /\ r["total"] # 0 /\ Len(r["data"]) = 0
    THEN "IndexError" ELSE ""

\* Lines 916-928: the local table, None when buckets_create returns None at
\* line 920 or 926; call is the call of tables_get that was made, r its
\* result.
lookup_table(call, r) ==
    IF ~IsNone(call.id) THEN r
    ELSE IF r["total"] = 0 THEN None
    ELSE r["data"][1]

\* Line 937 on a table_schema that is not a dict.
overwrite_exc(ts) == IF ts # None /\ ~IsDict(ts) THEN "TypeError" ELSE ""

\* buckets_create if line 937 kept the id that the schema declares.
schema_for_target_own_id(ts, table) ==
    IF ts = None THEN table
    ELSE IF Has(ts, "id") THEN ts
    ELSE Put(ts, "id", table["id"])

\* Lines 930-937: table_schema once the target table is known.
schema_for_target(ts, table) ==
    IF ts = None THEN table ELSE Put(ts, "id", table["id"])

\* Lines 952-957.
create_data(name, operation, ts, bucket_schema) ==
    [name |-> name,
     operation |-> [id |-> "Operation_Type=" \o operation],
     targetDataset |-> [id |-> ts["id"]],
     schema |-> bucket_schema]

\* Lines 961-967.
create_result(r) == IF r.status_code = 201 THEN r.json ELSE None

\* The ID the service gives the bucket it creates next: a new one for each
\* bucket, and the same one again when it repeats its answers for a call
\* that is compared with an earlier one.
NewBucketId == IF prev = None THEN "B9" ELSE prev.new_id

\* The answers of the service to the request that creates a bucket.
CreateResponses(d) ==
    {[status_code |-> 201,
      json |-> [id |-> NewBucketId, name |-> d.name, targetDataset |-> d.targetDataset,
                state |-> [descriptor |-> "New"]]],
     [status_code |-> 400, json |-> [error |-> "invalid request"]],
     [status_code |-> 500]}

\* uuid.uuid4().hex of line 87 is one of many values.
GenNames == {"prism_python_0a", "prism_python_0b"}

BucketsCreateArgs ==
    [bucket_name : {None, PyStr("bk")},
     target_name : {None, PyStr("Sales 1"), PyStr("nosuch")},
     target_id : {None, PyStr("I2"), PyStr("I9")},
     schema : {None, NotADict, PyStr("schema.json")} \cup {s \in Schemas : IsDict(s)},
     operation : {"TruncateAndInsert", "Upsert"}]

\* buckets_create(...) up to its first request, lines 882-916 and 922, for
\* the arguments in a.
BucketsCreateCall(a) ==
    \E content \in IF ~IsDict(a.schema) /\ IsStr(a.schema) THEN FileContents ELSE {None} :
    \E gen \in IF IsNone(a.bucket_name) THEN GenNames ELSE {a.bucket_name["v"]} :
       LET ts == schema_loaded(a.schema, content)
       IN  /\ bfn' = "buckets_create"
           /\ bargs' = a
           /\ schema_file' = content
           /\ new_bucket_name' = gen
           /\ IF schema_rejected(a.schema, content)
              THEN /\ bpos' = "done"
                   /\ table_schema' = None
                   /\ UNCHANGED <<fn, args, pos, params, search, exc>>
              ELSE IF no_target(a)
              THEN /\ bpos' = IF target_missing(ts) THEN "done" ELSE "post"
                   /\ table_schema' = ts
                   /\ UNCHANGED <<fn, args, pos, params, search, exc>>
              ELSE /\ bpos' = "lookup"
                   /\ table_schema' = ts
                   /\ TablesGetCall(lookup_call(a))

\* A call of buckets_create by the user of the class.
BucketsCreate ==
    /\ bpos = "idle" /\ pos = "idle"
    /\ \E a \in BucketsCreateArgs : BucketsCreateCall(a)
    /\ UNCHANGED <<schemaVars, authVars, loadVars, serverTotal, data, requests, responses, ret, bret>>

\* Lines 918-937, when tables_get has returned.
BucketsCreateLookedUp ==
    /\ bpos = "lookup" /\ pos = "done"
    /\ IF exc # ""
       THEN bpos' = "done" /\ UNCHANGED <<exc, table_schema>>
       ELSE IF lookup_exc(args, ret) # ""
       THEN bpos' = "done" /\ exc' = lookup_exc(args, ret) /\ UNCHANGED table_schema
       ELSE IF lookup_table(args, ret) = None
       THEN bpos' = "done" /\ UNCHANGED <<exc, table_schema>>
       ELSE IF overwrite_exc(table_schema) # ""
       THEN bpos' = "done" /\ exc' = overwrite_exc(table_schema) /\ UNCHANGED table_schema
       ELSE /\ bpos' = "post"
            /\ table_schema' = schema_for_target(table_schema, lookup_table(args, ret))
            /\ UNCHANGED exc
    /\ UNCHANGED <<schemaVars, authVars, loadVars, pagerVars, bfn, bargs, schema_file, new_bucket_name, bret>>

\* Lines 939-967: the schema of the bucket and the request that creates it.
BucketsCreatePost ==
    /\ bpos = "post"
    /\ bpos' = "done"
    /\ table_schema' = schema_compact_arg(table_schema)
    /\ LET compact_schema == schema_compact(table_schema)
       IN  IF compact_schema = None
           THEN UNCHANGED <<exc, requests, responses, bret>>
           ELSE IF bucket_exc(compact_schema) # ""
           THEN exc' = bucket_exc(compact_schema) /\ UNCHANGED <<requests, responses, bret>>
           ELSE LET d == create_data(new_bucket_name, bargs.operation, table_schema,
                                     table_to_bucket_schema(compact_schema))
                IN  /\ requests' = Append(requests,
                                          [method |-> "POST", url |-> "/buckets", data |-> d])
                    /\ \E r \in CreateResponses(d) :
                          /\ responses' = Append(responses, Received(r))
                          /\ bret' = create_result(r)
                    /\ UNCHANGED exc
    /\ UNCHANGED <<schemaVars, loadVars, pos, fn, args, serverTotal, params, search, data, ret,
                   bfn, bargs, schema_file, new_bucket_name>>
    /\ HttpSent("buckets_create", TRUE, FALSE)

\* buckets_complete if it returned a body on 201 only.
complete_result_created_only(r) ==
    IF r.status_code = 201 THEN r.json ELSE None

\* Lines 989-998.
complete_result(r) ==
    IF r.status_code = 201 THEN r.json
    ELSE IF r.status_code = 400 THEN r.json
    ELSE None

\* A complete request for the first bucket the service created, whatever
\* bucket the call has.
complete_request_first(bucket_id) ==
    [method |-> "POST", url |-> "/buckets/B9/complete"]

\* Lines 983-987: the request that completes the bucket.
complete_request(bucket_id) ==
    [method |-> "POST", url |-> "/buckets/" \o bucket_id \o "/complete"]

\* The answers of the service to the request that completes a bucket.
CompleteResponses ==
    {[status_code |-> 201, json |-> [id |-> "B1", state |-> [descriptor |-> "Queued"]]],
     [status_code |-> 400, json |-> [error |-> "bucket has no files"]],
     [status_code |-> 404, json |-> [error |-> "not found"]],
     [status_code |-> 500, json |-> [error |-> "server error"]]}

\* buckets_complete(bucket_id), lines 983-998.
BucketsComplete ==
    /\ bpos = "idle" /\ pos = "idle"
    /\ \E id \in {"B1", "B2"} :
          /\ bfn' = "buckets_complete"
          /\ bargs' = [bucket_id |-> id]
          /\ requests' = Append(requests, complete_request(id))
    /\ \E r \in CompleteResponses :
          /\ responses' = Append(responses, Received(r))
          /\ bret' = complete_result(r)
    /\ bpos' = "done"
    /\ UNCHANGED <<schemaVars, loadVars, exc, pos, fn, args, serverTotal, params, search, data, ret,
                   schema_file, new_bucket_name, table_schema>>
    /\ HttpSent("buckets_complete", FALSE, FALSE)

\* The tables the service holds when a bucket is created.
BucketServerTotals == {0, 3}

BucketInit ==
    /\ pc = "off"
    /\ schema = None
    /\ schema0 = None
    /\ inner = None
    /\ outer = None
    /\ again = None
    /\ table0 = None
    /\ bucket = None
    /\ exc = ""
    /\ pos = "idle"
    /\ fn = ""
    /\ args = None
    /\ serverTotal \in BucketServerTotals
    /\ params = None
    /\ search = FALSE
    /\ data = <<>>
    /\ requests = <<>>
    /\ responses = <<>>
    /\ ret = None
    /\ bpos = "idle"
    /\ bfn = ""
    /\ bargs = None
    /\ schema_file = None
    /\ new_bucket_name = ""
    /\ table_schema = None
    /\ bret = None
    /\ LoadIdle

BucketNext ==
    \/ BucketsCreate \/ TablesFetch \/ GetById
    \/ BucketsCreateLookedUp \/ BucketsCreatePost
    \/ BucketsComplete

BucketSpec == BucketInit /\ [][BucketNext]_vars

(***************************************************************************)
(* Staging files: resolve_file_list, buckets_files, fileContainers_load.   *)
(* The file argument is None, a str or a list of str; the entries of       *)
(* target_files are None (the empty file) or a str.  An uploaded file is   *)
(* the pair of its file name and its content; gzip.compress(b) is Gzip(b). *)
(***************************************************************************)
PyList(l) == [pytype |-> "list", v |-> l]

IsList(x) == x["pytype"] = "list"

\* s.endswith(suffix)
EndsWith(s, suffix) ==
    Len(s) >= Len(suffix) /\ SubSeq(s, Len(s) - Len(suffix) + 1, Len(s)) = suffix

RECURSIVE Basename(_)
\* os.path.basename(path)
Basename(path) ==
    IF \E i \in 1..Len(path) : SubSeq(path, i, i) = "/"
    THEN Basename(SubSeq(path, 2, Len(path)))
    ELSE path

\* gzip.compress(bytes)
Gzip(bytes) == [gzip |-> bytes]

MaxFiles == 3

\* The paths the callers name.
FilePool == {"a.csv", "b.csv.gz", "missing.csv", "notes.txt", "d/C.CSV"}

\* os.path.exists(f), line 1505: the files that are there.
Existing == {"a.csv", "b.csv.gz", "notes.txt", "d/C.CSV"}

\* What reading a file gives.
FileBytes(f) ==
    CASE f = "a.csv" -> "x,y"
      [] f = "b.csv.gz" -> "gz"
      [] f = "d/C.CSV" -> "z"
      [] OTHER -> "text"

\* resolve_file_list accepting every path that exists, whatever its name.
supported_file_any(f) == f \in Existing

\* Lines 1505-1512: the file exists and is a .csv or a .csv.gz.
supported_file(f) ==
    /\ f \in Existing
    /\ EndsWith(Lower(f), ".csv") \/ EndsWith(Lower(f), ".csv.gz")

\* resolve_file_list(files), lines 1485-1514.
resolve_file_list(files) ==
    IF IsNone(files) THEN <<>>
    ELSE IF IsList(files) /\ Len(files["v"]) = 0 THEN <<>>
    ELSE IF IsStr(files) /\ files["v"] = "" THEN <<>>
    ELSE LET list == IF IsStr(files) THEN <<files["v"]>> ELSE files["v"]
         IN  SelectSeq(list, supported_file)

\* The list as target_files holds it.
Boxed(list) == [i \in 1..Len(list) |-> PyStr(list[i])]

\* Lines 1043-1053 and 1399-1408: the file part of the upload.  A file that
\* is passed open is sent under the base name of its path.
new_file(target_file) ==
    IF IsNone(target_file)
    THEN [filename |-> "empty.csv.gz", content |-> Gzip("")]
    ELSE IF EndsWith(Lower(target_file["v"]), ".csv.gz")
    THEN [filename |-> Basename(target_file["v"]), content |-> FileBytes(target_file["v"])]
    ELSE [filename |-> Basename(target_file["v"]) \o ".gz",
          content |-> Gzip(FileBytes(target_file["v"]))]

\* Lines 1026-1028 and 1055; lines 1430-1434.
upload_request(operation, file) == [method |-> "POST", url |-> operation, files |-> file]

\* The answers of the service to an upload: a receipt, or a refusal.
UploadResponses(file) ==
    {[status_code |-> 201, json |-> [name |-> file.filename, state |-> "Success"]],
     [status_code |-> 400, json |-> [error |-> "invalid file"]],
     [status_code |-> 500]}

\* buckets_files whose results count every upload, whatever its status.
staged_always(res, r) == [res EXCEPT !.data = Append(@, r.status_code)]

\* Lines 1057-1060 and 1436-1438: the receipt is kept on a 201 only.
staged(res, r) ==
    IF r.status_code = 201 THEN [res EXCEPT !.data = Append(@, r.json)] ELSE res

\* Lines 1062 and 1440.
totalled(res) == [res EXCEPT !.total = Len(res.data)]

\* A loop that a refused upload ends.
remaining_files_if_accepted(files, r) ==
    IF r.status_code = 201 THEN Tail(files) ELSE <<>>

\* Lines 1042 and 1397: the loop goes on to the next file whatever the
\* upload of this one was answered with.
remaining_files(files, r) == Tail(files)

\* Lines 1035-1039.
buckets_files_targets(file) ==
    IF IsNone(file) THEN <<None>> ELSE Boxed(resolve_file_list(file))

\* buckets_files(bucket_id, file) up to its first upload, lines 1026-1042
\* (and 1062-1063 when there is nothing to upload).
BucketsFilesCall(bucket_id, file) ==
    LET targets == buckets_files_targets(file)
        res == [total |-> 0, data |-> <<>>]
    IN  /\ ffn' = "buckets_files"
        /\ fargs' = [bucket_id |-> bucket_id, file |-> file]
        /\ target_files' = targets
        /\ IF targets = <<>>
           THEN fpos' = "done" /\ results' = totalled(res) /\ fret' = totalled(res)
           ELSE fpos' = "loop" /\ results' = res /\ fret' = None

\* The file arguments of the callers.
FileArgs ==
    {None, PyStr(""), PyStr("a.csv"), PyStr("missing.csv"), PyStr("notes.txt")}
    \cup {PyList(l) : l \in UNION {[1..n -> FilePool] : n \in 0..MaxFiles}}

\* A call of buckets_files by the user of the class.
BucketsFiles ==
    /\ fpos = "idle" /\ lpos = "idle" /\ bpos = "idle" /\ pos = "idle"
    /\ \E file \in FileArgs : BucketsFilesCall("B1", file)
    /\ UNCHANGED <<schemaVars, authVars, exc, pagerVars, bucketVars, resolved_fid, lpos, lfn, largs, lret, prev>>

\* One pass of the loop of lines 1042-1060, and lines 1062-1063 after the
\* last one.
BucketsFilesUpload ==
    /\ fpos = "loop" /\ ffn = "buckets_files"
    /\ LET file == new_file(Head(target_files))
       IN  /\ requests' = Append(requests,
                                 upload_request("/buckets/" \o fargs.bucket_id \o "/files", file))
           /\ \E r \in UploadResponses(file) :
                 /\ responses' = Append(responses, Received(r))
                 /\ target_files' = remaining_files(target_files, r)
                 /\ IF remaining_files(target_files, r) = <<>>
                    THEN /\ results' = totalled(staged(results, r))
                         /\ fret' = totalled(staged(results, r))
                         /\ fpos' = "done"
                    ELSE /\ results' = staged(results, r)
                         /\ UNCHANGED <<fret, fpos>>
    /\ UNCHANGED <<schemaVars, exc, pos, fn, args, serverTotal, params, search, data, ret,
                   bucketVars, ffn, fargs, resolved_fid, lpos, lfn, largs, lret, prev>>
    /\ HttpSent("buckets_files", FALSE, FALSE)

\* Lines 1327-1331.
container_request == [method |-> "POST", url |-> "/fileContainers"]

\* Lines 1333-1341.
container_result(r) == IF r.status_code = 201 THEN r.json ELSE None

\* The answers of the service to the request that creates a file container.
ContainerResponses ==
    {[status_code |-> 201, json |-> [id |-> "FC7"]],
     [status_code |-> 201, json |-> [id |-> "FC8"]],
     [status_code |-> 500]}

\* Lines 1414-1422: resolved_fid after the container was created, or when
\* none had to be.
container_kept(fid, created) == IF IsNone(fid) THEN PyStr(created["id"]) ELSE fid

\* fileContainers_load if its result did not name the container.
with_container_unset(res, fid) == res

\* Line 1424.
with_container(res, fid) == [res EXCEPT !.id = fid]

\* A call of fileContainers_load by the user of the class, up to its first
\* request: lines 1391-1397 (and 1440-1442 when there is nothing to upload).
FileContainersLoad ==
    /\ fpos = "idle" /\ lpos = "idle" /\ bpos = "idle" /\ pos = "idle"
    /\ \E fid \in {None, PyStr("FC1")}, file \in FileArgs :
          LET targets == Boxed(resolve_file_list(file))
              res == [id |-> None, total |-> 0, data |-> <<>>]
          IN  /\ ffn' = "fileContainers_load"
              /\ fargs' = [filecontainer_id |-> fid, file |-> file]
              /\ resolved_fid' = fid
              /\ target_files' = targets
              /\ IF targets = <<>>
                 THEN fpos' = "done" /\ results' = totalled(res) /\ fret' = totalled(res)
                 ELSE fpos' = "loop" /\ results' = res /\ fret' = None
    /\ UNCHANGED <<schemaVars, authVars, exc, pagerVars, bucketVars, lpos, lfn, largs, lret, prev>>

\* Lines 1414-1422 in a pass of the loop that has no container yet:
\* fileContainers_create is called and the call returns None when no
\* container was created.
FileContainersLoadCreate ==
    /\ fpos = "loop" /\ ffn = "fileContainers_load"
    /\ IsNone(resolved_fid)
    /\ requests' = Append(requests, container_request)
    /\ \E c \in ContainerResponses :
          /\ responses' = Append(responses, Received(c))
          /\ IF container_result(c) = None
             THEN /\ fret' = None
                  /\ fpos' = "done"
                  /\ UNCHANGED resolved_fid
             ELSE /\ resolved_fid' = container_kept(resolved_fid, container_result(c))
                  /\ UNCHANGED <<fret, fpos>>
    /\ UNCHANGED <<schemaVars, exc, pos, fn, args, serverTotal, params, search, data, ret,
                   bucketVars, ffn, fargs, target_files, results, lpos, lfn, largs, lret, prev>>
    /\ HttpSent("fileContainers_create", FALSE, FALSE)

\* Lines 1424-1438 of a pass of the loop, the container being known: the
\* file is uploaded; lines 1440-1442 after the last pass.
FileContainersLoadStep ==
    /\ fpos = "loop" /\ ffn = "fileContainers_load"
    /\ ~IsNone(resolved_fid)
    /\ LET file == new_file(Head(target_files))
           res == with_container(results, resolved_fid)
       IN  /\ requests' = Append(requests, upload_request(
                  "/fileContainers/" \o resolved_fid["v"] \o "/files", file))
           /\ \E r \in UploadResponses(file) :
                 /\ responses' = Append(responses, Received(r))
                 /\ target_files' = remaining_files(target_files, r)
                 /\ IF remaining_files(target_files, r) = <<>>
                    THEN /\ results' = totalled(staged(res, r))
                         /\ fret' = totalled(staged(res, r))
                         /\ fpos' = "done"
                    ELSE /\ results' = staged(res, r)
                         /\ UNCHANGED <<fret, fpos>>
    /\ UNCHANGED <<schemaVars, exc, pos, fn, args, serverTotal, params, search, data, ret,
                   bucketVars, ffn, fargs, resolved_fid, lpos, lfn, largs, lret, prev>>
    /\ HttpSent("fileContainers_load", FALSE, FALSE)

(***************************************************************************)
(* upload_file and truncate_table: a bucket is created, files are staged   *)
(* in it, and the bucket is completed.                                     *)
(***************************************************************************)
\* Line 1620: the call of buckets_create by upload_file.
upload_create_call(a) ==
    [bucket_name |-> None, target_name |-> a.table_name, target_id |-> a.table_id,
     schema |-> None, operation |-> a.operation]

\* truncate_table if it created its bucket for an Insert.
truncate_create_call_insert(a) ==
    [bucket_name |-> None,
     target_name |-> IF ~IsNone(a.table_id) THEN None ELSE a.table_name,
     target_id |-> a.table_id,
     schema |-> None, operation |-> "Insert"]

\* Lines 1642-1645: the call of buckets_create by truncate_table.
truncate_create_call(a) ==
    [bucket_name |-> None,
     target_name |-> IF ~IsNone(a.table_id) THEN None ELSE a.table_name,
     target_id |-> a.table_id,
     schema |-> None, operation |-> "TruncateAndInsert"]

\* upload_file if it returned an empty staging result when it has no bucket.
no_bucket_result_empty == [total |-> 0, data |-> <<>>]

\* Lines 1622-1623 and 1647-1649: return None.
no_bucket_result == None

\* upload_file if it completed the bucket whatever was staged.
completes_always(file_results) == TRUE

\* Line 1627.
completes(file_results) == file_results["total"] > 0

\* Lines 1632-1633 on the None that buckets_complete returns on a failure.
upload_exc(res) == IF res = None THEN "TypeError" ELSE ""

\* upload_file if it returned what buckets_complete returned.
upload_result_as_completed(res, file_results, bckt) == res

\* Lines 1632-1635.
upload_result(res, file_results, bckt) ==
    Put(Put(res, "files", file_results), "bucket", bckt)

\* The file arguments of upload_file.
UploadFileArgs ==
    {None, PyStr("a.csv"), PyStr("notes.txt"), PyList(<<>>),
     PyList(<<"a.csv", "b.csv.gz">>), PyList(<<"missing.csv", "d/C.CSV">>)}

\* The targets of upload_file and truncate_table.
TargetArgs ==
    [table_id : {None, PyStr("I2"), PyStr("I9")},
     table_name : {None, PyStr("Sales 1"), PyStr("nosuch")}]

\* A call of upload_file, up to the first request of buckets_create.
UploadFile ==
    /\ lpos = "idle" /\ fpos = "idle" /\ bpos = "idle" /\ pos = "idle"
    /\ \E t \in TargetArgs, file \in UploadFileArgs, op \in {"TruncateAndInsert", "Insert"} :
          LET a == [file |-> file, table_id |-> t.table_id,
                    table_name |-> t.table_name, operation |-> op]
          IN  /\ lfn' = "upload_file"
              /\ largs' = a
              /\ BucketsCreateCall(upload_create_call(a))
    /\ lpos' = "create"
    /\ UNCHANGED <<schemaVars, authVars, serverTotal, data, requests, responses, ret, bret,
                   stageVars, lret, prev>>

\* Lines 1622-1625, when buckets_create has returned or raised.
UploadFileCreated ==
    /\ lpos = "create" /\ lfn = "upload_file" /\ bpos = "done"
    /\ IF exc # ""
       THEN /\ lpos' = "done"
            /\ UNCHANGED <<ffn, fargs, target_files, fpos, results, fret, lret>>
       ELSE IF bret = None
       THEN /\ lpos' = "done"
            /\ lret' = no_bucket_result
            /\ UNCHANGED <<ffn, fargs, target_files, fpos, results, fret>>
       ELSE /\ lpos' = "files"
            /\ BucketsFilesCall(bret["id"], largs.file)
            /\ UNCHANGED lret
    /\ UNCHANGED <<schemaVars, authVars, exc, pagerVars, bucketVars, resolved_fid, lfn, largs, prev>>

\* Lines 1627-1637, when buckets_files has returned.
UploadFileStaged ==
    /\ lpos = "files" /\ lfn = "upload_file" /\ fpos = "done"
    /\ lpos' = "done"
    /\ IF completes(fret)
       THEN /\ requests' = Append(requests, complete_request(bret["id"]))
            /\ \E r \in CompleteResponses :
                  /\ responses' = Append(responses, Received(r))
                  /\ exc' = upload_exc(complete_result(r))
                  /\ IF upload_exc(complete_result(r)) # ""
                     THEN UNCHANGED lret
                     ELSE lret' = upload_result(complete_result(r), fret, bret)
       ELSE /\ lret' = fret
            /\ UNCHANGED <<requests, responses, exc>>
    /\ UNCHANGED <<schemaVars, pos, fn, args, serverTotal, params, search, data, ret,
                   bucketVars, stageVars, lfn, largs, prev>>
    /\ HttpSent("buckets_complete", FALSE, FALSE)

\* A call of truncate_table, up to the first request of buckets_create.
TruncateTable ==
    /\ lpos = "idle" /\ fpos = "idle" /\ bpos = "idle" /\ pos = "idle"
    /\ \E t \in TargetArgs :
          /\ lfn' = "truncate_table"
          /\ largs' = t
          /\ BucketsCreateCall(truncate_create_call(t))
    /\ lpos' = "create"
    /\ UNCHANGED <<schemaVars, authVars, serverTotal, data, requests, responses, ret, bret,
                   stageVars, lret, prev>>

\* Lines 1647-1654, when buckets_create has returned or raised.
TruncateTableCreated ==
    /\ lpos = "create" /\ lfn = "truncate_table" /\ bpos = "done"
    /\ IF exc # ""
       THEN /\ lpos' = "done"
            /\ UNCHANGED <<ffn, fargs, target_files, fpos, results, fret, lret>>
       ELSE IF bret = None
       THEN /\ lpos' = "done"
            /\ lret' = no_bucket_result
            /\ UNCHANGED <<ffn, fargs, target_files, fpos, results, fret>>
       ELSE /\ lpos' = "files"
            /\ BucketsFilesCall(bret["id"], None)
            /\ UNCHANGED lret
    /\ UNCHANGED <<schemaVars, authVars, exc, pagerVars, bucketVars, resolved_fid, lfn, largs, prev>>

\* Lines 1656-1659, when buckets_files has returned.
TruncateTableStaged ==
    /\ lpos = "files" /\ lfn = "truncate_table" /\ fpos = "done"
    /\ lpos' = "done"
    /\ requests' = Append(requests, complete_request(bret["id"]))
    /\ \E r \in CompleteResponses :
          /\ responses' = Append(responses, Received(r))
          /\ lret' = complete_result(r)
    /\ UNCHANGED <<schemaVars, exc, pos, fn, args, serverTotal, params, search, data, ret,
                   bucketVars, stageVars, lfn, largs, prev>>
    /\ HttpSent("buckets_complete", FALSE, FALSE)

\* truncate_table has returned; its outcome is kept, and upload_file is
\* called for the same target with file=None and operation
\* TruncateAndInsert, the service holding what it held: the call up to the
\* first request of buckets_create.
UploadFileAfterTruncate ==
    /\ lpos = "done" /\ lfn = "truncate_table" /\ exc = "" /\ prev = None
    /\ prev' = [requests |-> requests, responses |-> responses, lret |-> lret,
                name |-> new_bucket_name, table |-> ret, bucket |-> bret,
                new_id |-> "B9"]
    /\ LET a == [file |-> None, table_id |-> largs.table_id,
                 table_name |-> largs.table_name, operation |-> "TruncateAndInsert"]
       IN  /\ lfn' = "upload_file"
           /\ largs' = a
           /\ BucketsCreateCall(upload_create_call(a))
    /\ lpos' = "create"
    /\ lret' = None
    /\ requests' = <<>> /\ responses' = <<>> /\ data' = <<>> /\ ret' = None /\ bret' = None
    /\ fpos' = "idle" /\ ffn' = "" /\ fargs' = None /\ target_files' = <<>>
    /\ results' = None /\ fret' = None
    /\ token_requests' = <<>> /\ sent_headers' = <<>>
    /\ UNCHANGED <<schemaVars, serverTotal, resolved_fid, bearer_token, bearer_token_timestamp,
                   CONTENT_APP_JSON, CONTENT_FORM, clock, issued, issued_at_reset>>

\* upload_file has returned; its outcome is kept, and truncate_table is
\* called for the same target: the call up to the first request of
\* buckets_create.  The service creates another bucket for it.
TruncateTableAfterUpload ==
    /\ lpos = "done" /\ lfn = "upload_file" /\ exc = "" /\ prev = None
    /\ prev' = [requests |-> requests, responses |-> responses, lret |-> lret,
                name |-> new_bucket_name, table |-> ret, bucket |-> bret,
                new_id |-> "B10"]
    /\ LET t == [table_id |-> largs.table_id, table_name |-> largs.table_name]
       IN  /\ lfn' = "truncate_table"
           /\ largs' = t
           /\ BucketsCreateCall(truncate_create_call(t))
    /\ lpos' = "create"
    /\ lret' = None
    /\ requests' = <<>> /\ responses' = <<>> /\ data' = <<>> /\ ret' = None /\ bret' = None
    /\ fpos' = "idle" /\ ffn' = "" /\ fargs' = None /\ target_files' = <<>>
    /\ results' = None /\ fret' = None
    /\ token_requests' = <<>> /\ sent_headers' = <<>>
    /\ UNCHANGED <<schemaVars, serverTotal, resolved_fid, bearer_token, bearer_token_timestamp,
                   CONTENT_APP_JSON, CONTENT_FORM, clock, issued, issued_at_reset>>

LoadInit == BucketInit

LoadNext ==
    \/ BucketsFiles \/ BucketsFilesUpload
    \/ FileContainersLoad \/ FileContainersLoadCreate \/ FileContainersLoadStep
    \/ UploadFile \/ UploadFileCreated \/ UploadFileStaged
    \/ TruncateTable \/ TruncateTableCreated \/ TruncateTableStaged
    \/ TablesFetch \/ GetById \/ BucketsCreateLookedUp \/ BucketsCreatePost

LoadSpec == LoadInit /\ [][LoadNext]_vars

EquivNext ==
    \/ TruncateTable \/ TruncateTableCreated \/ TruncateTableStaged
    \/ UploadFileAfterTruncate \/ UploadFileCreated \/ UploadFileStaged
    \/ BucketsFilesUpload
    \/ TablesFetch \/ GetById \/ BucketsCreateLookedUp \/ BucketsCreatePost

EquivSpec == LoadInit /\ [][EquivNext]_vars

ReloadNext ==
    \/ UploadFile \/ UploadFileCreated \/ UploadFileStaged
    \/ TruncateTableAfterUpload \/ TruncateTableCreated \/ TruncateTableStaged
    \/ BucketsFilesUpload
    \/ TablesFetch \/ GetById \/ BucketsCreateLookedUp \/ BucketsCreatePost

ReloadSpec == LoadInit /\ [][ReloadNext]_vars

(***************************************************************************)
(* dataChanges_validate and dataChanges_is_valid.                          *)
(***************************************************************************)
\* Line 1271: the name id, which is no parameter and no local of
\* dataChanges_is_valid, is the built-in function; this is its text in the
\* URL of line 1296.
\* Line 1271: the argument of the call of dataChanges_validate.
validated_id(datachange_id) == "<built-in function id>"

\* Lines 1302-1306.
validate_result(r) == IF r.status_code \in {200, 400, 404} THEN r.json ELSE None

\* Lines 1273-1283.
is_valid_result(dct) == dct # None /\ ~Has(dct, "error")

\* The answers of the service to the validate request for the data change
\* that the URL names: its ID when the service holds it and it is valid, an
\* error otherwise.
ValidateResponses(id) ==
    {[status_code |-> 400, json |-> [error |-> "invalid data change"]],
     [status_code |-> 500]}
    \cup (IF \E i \in 1..serverTotal : ItemAt("dataChanges_get", i)["id"] = id
          THEN {[status_code |-> 200, json |-> [id |-> id]]}
          ELSE {[status_code |-> 404, json |-> [error |-> "not found"]]})

\* dataChanges_validate(id) up to its request, lines 1296-1298.
DataChangesValidateCall(id) ==
    /\ pos' = "validate"
    /\ params' = [id |-> id]

\* A call of dataChanges_validate by the user of the class.
DataChangesValidate ==
    /\ pos = "idle"
    /\ \E id \in {"I1", "I2", "I9"} :
          /\ fn' = "dataChanges_validate"
          /\ args' = [datachange_id |-> id]
          /\ DataChangesValidateCall(id)
    /\ UNCHANGED <<schemaVars, authVars, loadVars, bucketVars, exc, serverTotal, search, data,
                   requests, responses, ret>>

\* A call of dataChanges_is_valid by the user of the class, up to the
\* request of dataChanges_validate.
DataChangesIsValid ==
    /\ pos = "idle"
    /\ \E id \in {"I1", "I2", "I9"} :
          /\ fn' = "dataChanges_is_valid"
          /\ args' = [datachange_id |-> id]
          /\ DataChangesValidateCall(validated_id(id))
    /\ UNCHANGED <<schemaVars, authVars, loadVars, bucketVars, exc, serverTotal, search, data,
                   requests, responses, ret>>

\* Lines 1300-1306 of dataChanges_validate, and lines 1273-1283 when
\* dataChanges_is_valid made the call.
DataChangesValidateRequest ==
    /\ pos = "validate"
    /\ requests' = Append(requests, [url |-> "/dataChanges/" \o params.id \o "/validate"])
    /\ \E r \in ValidateResponses(params.id) :
          /\ responses' = Append(responses, Received(r))
          /\ ret' = IF fn = "dataChanges_validate" THEN validate_result(r)
                    ELSE [pytype |-> "bool", v |-> is_valid_result(validate_result(r))]
    /\ pos' = "done"
    /\ UNCHANGED <<schemaVars, loadVars, bucketVars, exc, fn, args, serverTotal, params,
                   search, data>>
    /\ HttpSent("dataChanges_validate", FALSE, FALSE)

ValidNext == DataChangesValidate \/ DataChangesIsValid \/ DataChangesValidateRequest

ValidSpec == PagerInit /\ [][ValidNext]_vars

(***************************************************************************)
(* The program calls the http methods, get_bearer_token and                *)
(* reset_bearer_token directly, and time passes between the calls.         *)
(***************************************************************************)
\* An API method that reads: tables_get, buckets_get, dataChanges_get, ...
HttpGet ==
    /\ Len(requests) + Len(token_requests) + 2 <= MaxWire
    /\ fn' = "tables_get"
    /\ requests' = Append(requests, [method |-> "GET", url |-> "/api"])
    /\ \E code \in {200, 401} : ret' = [status_code |-> code]
    /\ HttpSent("tables_get", FALSE, FALSE)
    /\ UNCHANGED <<schemaVars, bucketVars, loadVars, exc, pos, args, serverTotal,
                   params, search, data, responses>>

\* buckets_complete, buckets_files, fileContainers_create, fileContainers_load
HttpPost ==
    /\ Len(requests) + Len(token_requests) + 2 <= MaxWire
    /\ fn' = "buckets_complete"
    /\ requests' = Append(requests, [method |-> "POST", url |-> "/api"])
    /\ \E code \in {200, 401} : ret' = [status_code |-> code]
    /\ HttpSent("buckets_complete", FALSE, FALSE)
    /\ UNCHANGED <<schemaVars, bucketVars, loadVars, exc, pos, args, serverTotal,
                   params, search, data, responses>>

\* tables_post, buckets_create, dataChanges_activities_post
HttpPostJson ==
    /\ Len(requests) + Len(token_requests) + 2 <= MaxWire
    /\ fn' = "buckets_create"
    /\ requests' = Append(requests, [method |-> "POST", url |-> "/api"])
    /\ \E code \in {200, 401} : ret' = [status_code |-> code]
    /\ HttpSent("buckets_create", TRUE, FALSE)
    /\ UNCHANGED <<schemaVars, bucketVars, loadVars, exc, pos, args, serverTotal,
                   params, search, data, responses>>

\* tables_patch
HttpPatchJson ==
    /\ Len(requests) + Len(token_requests) + 2 <= MaxWire
    /\ fn' = "tables_patch"
    /\ requests' = Append(requests, [method |-> "PATCH", url |-> "/api"])
    /\ \E code \in {200, 401} : ret' = [status_code |-> code]
    /\ HttpSent("tables_patch", TRUE, FALSE)
    /\ UNCHANGED <<schemaVars, bucketVars, loadVars, exc, pos, args, serverTotal,
                   params, search, data, responses>>

\* tables_put
HttpPut ==
    /\ Len(requests) + Len(token_requests) + 2 <= MaxWire
    /\ fn' = "tables_put"
    /\ requests' = Append(requests, [method |-> "PUT", url |-> "/api"])
    /\ \E code \in {200, 401} : ret' = [status_code |-> code]
    /\ HttpSent("tables_put", FALSE, TRUE)
    /\ UNCHANGED <<schemaVars, bucketVars, loadVars, exc, pos, args, serverTotal,
                   params, search, data, responses>>

\* The calling program asks for the token itself.
GetBearerToken ==
    /\ Len(requests) + Len(token_requests) + 1 <= MaxWire
    /\ fn' = "get_bearer_token"
    /\ \E status \in {200, 401} :
          LET a == get_bearer_token(AuthState, status)
          IN  /\ bearer_token' = a.bearer_token
              /\ bearer_token_timestamp' = a.bearer_token_timestamp
              /\ issued' = a.issued
              /\ token_requests' = a.token_requests
              /\ ret' = PyStr(token_string(a.bearer_token))
    /\ UNCHANGED <<schemaVars, bucketVars, loadVars, exc, pos, args, serverTotal,
                   params, search, data, requests, responses, CONTENT_APP_JSON,
                   CONTENT_FORM, clock, issued_at_reset, sent_headers>>

\* The calling program asks for a new token whatever it holds.
CreateBearerToken ==
    /\ Len(requests) + Len(token_requests) + 1 <= MaxWire
    /\ fn' = "create_bearer_token"
    /\ \E status \in {200, 401} :
          LET a == create_bearer_token(AuthState, status)
          IN  /\ bearer_token' = a.bearer_token
              /\ bearer_token_timestamp' = a.bearer_token_timestamp
              /\ issued' = a.issued
              /\ token_requests' = a.token_requests
    /\ ret' = None
    /\ UNCHANGED <<schemaVars, bucketVars, loadVars, exc, pos, args, serverTotal,
                   params, search, data, requests, responses, CONTENT_APP_JSON,
                   CONTENT_FORM, clock, issued_at_reset, sent_headers>>

ResetBearerToken ==
    /\ fn' = "reset_bearer_token"
    /\ bearer_token' = None
    /\ bearer_token_timestamp' = None
    /\ issued_at_reset' = issued
    /\ ret' = None
    /\ UNCHANGED <<schemaVars, bucketVars, loadVars, exc, pos, args, serverTotal,
                   params, search, data, requests, responses, CONTENT_APP_JSON,
                   CONTENT_FORM, clock, issued, token_requests, sent_headers>>

\* Time passes between two calls.
Tick ==
    /\ \E d \in {450, 451} : clock + d <= MaxTime /\ clock' = clock + d
    /\ UNCHANGED <<schemaVars, bucketVars, loadVars, exc, pagerVars, bearer_token,
                   bearer_token_timestamp, CONTENT_APP_JSON, CONTENT_FORM, issued,
                   issued_at_reset, token_requests, sent_headers>>

AuthNext ==
    \/ HttpGet
    \/ HttpPost
    \/ HttpPostJson
    \/ HttpPatchJson
    \/ HttpPut
    \/ GetBearerToken
    \/ CreateBearerToken
    \/ ResetBearerToken
    \/ Tick

AuthSpec == PagerInit /\ [][AuthNext]_vars

(***************************************************************************)
(* Properties of schema_compact.                                           *)
(***************************************************************************)

\* C1: schema_compact is idempotent: evaluated on a dict schema S,
\* schema_compact(schema_compact(S)) equals schema_compact(S).
C1_Idempotent == pc = "compared" /\ IsDict(schema0) => outer = again

\* C2: the fields of the schema returned by schema_compact carry the
\* ordinals 1..N in list order, whatever ordinals the input fields had.
C2_OrdinalsContiguous ==
    pc = "inner" /\ IsDict(inner) /\ Has(inner, "fields") =>
        \A i \in 1..Len(inner["fields"]) :
            /\ Has(inner["fields"][i], "ordinal")
            /\ inner["fields"][i]["ordinal"] = i

\* C3: schema_compact has no side effects: after the call the caller's schema
\* argument, with every field dict in it, equals its value before the call.
C3_ArgumentUnchanged == pc = "inner" => schema = schema0

\* C4: no field whose name starts with WPA_ appears in the output of
\* schema_compact, and the other fields of the input appear in it, all of
\* them, in the order they have in the input.
C4_ReservedDropped ==
    pc = "inner" /\ IsDict(schema0) /\ Has(schema0, "fields") =>
        LET in == schema0["fields"]
            out == inner["fields"]
        IN  /\ \A i \in 1..Len(out) : ~StartsWith(out[i]["name"], "WPA_")
            /\ \E f \in [1..Len(out) -> 1..Len(in)] :
                  /\ \A i, j \in 1..Len(out) : i < j => f[i] < f[j]
                  /\ \A i \in 1..Len(out) : out[i]["name"] = in[f[i]]["name"]
                  /\ \A k \in 1..Len(in) :
                        (\A i \in 1..Len(out) : f[i] # k)
                            => StartsWith(in[k]["name"], "WPA_")

\* A schema with a reserved field ahead of an ordinary one has been compacted.
C4_Witness ==
    /\ pc = "inner"
    /\ IsDict(schema0) /\ Has(schema0, "fields")
    /\ Len(schema0["fields"]) = 2
    /\ StartsWith(schema0["fields"][1]["name"], "WPA_")
    /\ ~StartsWith(schema0["fields"][2]["name"], "WPA_")
    /\ Len(inner["fields"]) = 1

\* C5: the top-level keys of every schema schema_compact returns are among
\* name, id, fields, tags, categories, displayName, description,
\* documentation and enableForAnalysis.
C5_TopLevelKeysAllowed ==
    \A r \in {inner, outer, again} :
        IsDict(r) =>
            DOMAIN r \subseteq
                {"name", "id", "fields", "tags", "categories", "displayName",
                 "description", "documentation", "enableForAnalysis"}

\* A schema with attributes outside the allow-list has been compacted.
C5_Witness ==
    /\ pc = "inner"
    /\ IsDict(schema0)
    /\ {"stats", "parseOptions"} \subseteq DOMAIN schema0
    /\ IsDict(inner)
    /\ "id" \in DOMAIN inner

(***************************************************************************)
(* Properties of table_to_bucket_schema.                                   *)
(***************************************************************************)

\* C6: table_to_bucket_schema never fails on a schema that has a fields
\* attribute, and sets useAsOperationKey on every output field: true iff
\* the input field was marked externalId, false otherwise, also for a field
\* that carries no externalId attribute.
C6_OperationKeyAlwaysSet ==
    pc = "bucket" /\ IsDict(table0) /\ Has(table0, "fields") =>
        /\ exc = ""
        /\ IsDict(bucket)
        /\ LET kept == bucket_fields(table0["fields"])
           IN  /\ Len(bucket["fields"]) = Len(kept)
               /\ \A i \in 1..Len(kept) :
                     /\ Has(bucket["fields"][i], "useAsOperationKey")
                     /\ bucket["fields"][i]["useAsOperationKey"] =
                            (Has(kept[i], "externalId") /\ kept[i]["externalId"] = TRUE)

\* C7: the bucket schema holds exactly the input fields whose name does not
\* begin with WPA_: its field count is the input's field count minus the
\* number of fields with the reserved prefix.
C7_FieldCount ==
    pc = "bucket" /\ exc = "" /\ IsDict(bucket) =>
        Len(bucket["fields"]) =
            Len(table0["fields"])
            - Cardinality({i \in 1..Len(table0["fields"]) :
                              StartsWith(table0["fields"][i]["name"], "WPA_")})

\* C8: the bucket schema carries the input's parseOptions unchanged when the
\* input has a parseOptions attribute, and otherwise the defaults: comma
\* delimiter, double-quote enclosure, 1 header line, UTF-8, delimited file.
C8_ParseOptions ==
    pc = "bucket" /\ IsDict(bucket) =>
        bucket["parseOptions"] =
            IF "parseOptions" \in DOMAIN table0
            THEN table0["parseOptions"]
            ELSE [fieldsDelimitedBy |-> ",",
                  fieldsEnclosedBy |-> "\"",
                  headerLinesToIgnore |-> 1,
                  charset |-> [id |-> "Encoding=UTF-8"],
                  type |-> [id |-> "Schema_File_Type=Delimited"]]

\* A table with its own parse options has been converted to a bucket schema.
C8_Witness ==
    /\ pc = "bucket"
    /\ IsDict(bucket)
    /\ "parseOptions" \in DOMAIN table0
    /\ table0["parseOptions"]["fieldsDelimitedBy"] = ";"
    /\ bucket["parseOptions"]["fieldsDelimitedBy"] = ";"
    /\ Len(bucket["fields"]) > 0

(***************************************************************************)
(* Properties of the paged lookups.                                        *)
(***************************************************************************)

\* C9: tables_get called without a table ID never fails: whatever its
\* arguments and whatever the service answers, it returns a dict with total
\* and data and raises nothing.
C9_TablesGetNeverFails ==
    pos = "done" /\ fn = "tables_get" /\ IsNone(args.id) =>
        /\ exc = ""
        /\ IsDict(ret)
        /\ {"total", "data"} \subseteq DOMAIN ret

\* C10: every dict returned by the non-ID paths of tables_get, buckets_get
\* and dataChanges_get has total = len(data), whatever total the service
\* reported, on the exact-name path and after a failed request too.
C10_TotalIsLenData ==
    pos = "done" /\ exc = "" /\ ~Has(params, "id") =>
        ret["total"] = Len(ret["data"])

(***************************************************************************)
(* Properties of the three paged lookups, continued.                       *)
(***************************************************************************)

\* The running call carries no ID.
NoIdCall ==
    /\ fn \in {"tables_get", "buckets_get", "dataChanges_get"}
    /\ IF fn = "dataChanges_get" THEN ~dataChanges_by_id(args) ELSE IsNone(args.id)

\* The running call names the item it wants.
NamedCall == IsStr(args.name) /\ args.name["v"] # ""

\* C11: a call of tables_get, buckets_get or dataChanges_get with a name,
\* search=False and no ID issues exactly one request, of page size 1 at
\* offset 0 whatever limit and offset the caller passed, and returns a
\* result whose total is 0 or 1.
C11_ExactNameOneRequest ==
    (pos = "done" /\ NoIdCall /\ NamedCall /\ ~args.search /\ ~IsNone(args.type_))
        => /\ exc = ""
           /\ Len(requests) = 1
           /\ requests[1].limit = 1
           /\ requests[1].offset = 0
           /\ ret.total \in {0, 1}

\* The maximum page size of the resource the running call reads.
MaxPageSize ==
    CASE fn = "tables_get" -> PageSizeTables
      [] fn = "buckets_get" -> PageSizeBuckets
      [] fn = "dataChanges_get" -> PageSizeDataChanges

\* The last response received was a page shorter than the page asked for,
\* or was not a 200.
LastPageEndsScan ==
    /\ responses # <<>>
    /\ LET k == Len(responses)
       IN  \/ responses[k].status_code # 200
           \/ responses[k].items < requests[k].limit

\* What a full scan is: every request asks for the maximum page size, the
\* first at offset 0, and the call goes on until LastPageEndsScan.
IsFullScan ==
    /\ \A k \in 1..Len(requests) : requests[k].limit = MaxPageSize
    /\ requests # <<>> => requests[1].offset = 0
    /\ (pos = "done" /\ exc = "") => LastPageEndsScan
    /\ (pos = "loop" /\ requests # <<>>) => ~LastPageEndsScan

\* C12 as stated: a call of tables_get, buckets_get or dataChanges_get
\* without an ID is a full scan whenever search is true or no name filter is
\* supplied: every page request uses the maximum page size of the resource
\* regardless of the caller's limit and offset, the first request has offset
\* 0, and pages are requested until a short page or a non-200 arrives.
C12_FullScanWhenSearchOrNoName ==
    (NoIdCall /\ (args.search \/ ~NamedCall)) => IsFullScan

\* The calls that lines 533-545, 779-784 and 1141-1146 make full scans.
FullScanCall ==
    /\ NoIdCall
    /\ CASE fn = "tables_get" ->
               \/ args.search /\ ~IsNone(args.name)
               \/ ~args.search /\ IsNone(args.name) /\ IsNone(args.limit)
         [] fn = "buckets_get" -> args.search \/ IsNone(args.name)
         [] fn = "dataChanges_get" -> args.search /\ NamedCall

\* The running call raises before its first request: line 521 compares the
\* offset None with 0 when tables_get has a limit and no offset; lines 742
\* and 1107 call lower() on a type_ of None.
RaisesBeforeRequest ==
    CASE fn = "tables_get" -> IsInt(args.limit) /\ IsNone(args.offset)
      [] fn = "buckets_get" -> IsNone(args.type_)
      [] fn = "dataChanges_get" -> IsNone(args.type_)

\* C12, amended: tables_get is a full scan when search is true and a name
\* is given, or when search is false and neither a name nor a limit is
\* given; buckets_get whenever search is true or no bucket name is given;
\* dataChanges_get when search is true and a non-empty name is given.  Of
\* these calls, tables_get with a limit and no offset raises TypeError, and
\* buckets_get and dataChanges_get with a type_ of None raise
\* AttributeError, before any request is sent.  Every other one of them
\* raises nothing and sends at least one request; every page request uses
\* the maximum page size of the resource whatever limit and offset the
\* caller passed, the first request has offset 0, and pages are requested
\* until a short page or a non-200 arrives.
C12_FullScanCalls ==
    FullScanCall =>
        IF RaisesBeforeRequest
        THEN /\ pos = "done"
             /\ requests = <<>>
             /\ exc = IF fn = "tables_get" THEN "TypeError" ELSE "AttributeError"
        ELSE /\ exc = ""
             /\ pos = "done" => requests # <<>>
             /\ IsFullScan

\* A buckets_get with a limit and an offset of the caller's has read 247
\* buckets in pages of 100, 100 and 47.
C12_Witness ==
    /\ fn = "buckets_get" /\ FullScanCall
    /\ args.limit = PyInt(2) /\ args.offset = PyInt(2)
    /\ pos = "done"
    /\ Len(requests) = 3
    /\ responses[3] = [status_code |-> 200, items |-> 47]

\* C13: in a full scan a page with fewer items than the requested page size
\* always ends the scan: no further page request is issued after it; and
\* the k-th request of the scan has offset (k-1)*pageSize, so pages of 100,
\* 100 and 47 items give exactly 3 fetches.  The first two conjuncts hold
\* of every paged call: a short page is the last one, and the k-th request
\* asks for the page that follows the k-1 pages before it.
C13_ShortPageEndsScan ==
    NoIdCall =>
        /\ \A k \in 1..Len(responses) :
              (responses[k].status_code = 200 /\ responses[k].items < requests[k].limit)
                  => (k = Len(requests) /\ pos = "done")
        /\ \A k \in 1..Len(requests) :
              /\ requests[k].limit = requests[1].limit
              /\ requests[k].offset = requests[1].offset + (k - 1) * requests[1].limit
        /\ FullScanCall =>
              \A k \in 1..Len(requests) : requests[k].offset = (k - 1) * MaxPageSize

\* tables_get has scanned 247 tables: pages of 100, 100 and 47, 3 fetches.
C13_Witness ==
    /\ fn = "tables_get" /\ FullScanCall
    /\ serverTotal = 247
    /\ pos = "done"
    /\ responses = <<[status_code |-> 200, items |-> 100],
                     [status_code |-> 200, items |-> 100],
                     [status_code |-> 200, items |-> 47]>>
    /\ Len(requests) = 3 /\ requests[3].offset = 200

\* C14 as stated: a full scan of a service that holds serverTotal items,
\* with page size pageSize, performs at most ceil(serverTotal / pageSize)
\* page fetches, for every serverTotal, exact multiples of pageSize
\* included.
C14_AtMostCeilFetches ==
    FullScanCall =>
        Len(requests) <= (serverTotal + MaxPageSize - 1) \div MaxPageSize

\* C14, amended: a full scan of a service that holds serverTotal items
\* performs at most floor(serverTotal / pageSize) + 1 page fetches, and
\* exactly that many when every request is answered with 200: the scan ends
\* on the first page that is not full, which is an empty page when
\* serverTotal is a multiple of pageSize (0 included).
C14_AtMostFloorPlusOneFetches ==
    FullScanCall =>
        /\ Len(requests) <= serverTotal \div MaxPageSize + 1
        /\ (pos = "done" /\ exc = ""
               /\ \A k \in 1..Len(responses) : responses[k].status_code = 200)
              => Len(requests) = serverTotal \div MaxPageSize + 1

\* dataChanges_get has scanned 500 data changes: a full page and an empty
\* one, 2 fetches.
C14_Witness ==
    /\ fn = "dataChanges_get" /\ FullScanCall
    /\ serverTotal = 500
    /\ pos = "done"
    /\ responses = <<[status_code |-> 200, items |-> 500],
                     [status_code |-> 200, items |-> 0]>>

\* The items of the pages that answered the first k requests with 200, in
\* the order they were fetched.
RECURSIVE FetchedItems(_)
FetchedItems(k) ==
    IF k = 0 THEN <<>>
    ELSE FetchedItems(k - 1)
         \o (IF responses[k].status_code = 200 THEN ServerPage(fn, requests[k])
             ELSE <<>>)

\* C15: in a substring search (a name given with search=True) an item of a
\* fetched page is included in the result if and only if the query is a
\* case-insensitive substring of its name or of its displayName, for tables,
\* buckets and data changes alike.
C15_CaseInsensitiveSubstring ==
    (pos = "done" /\ exc = "" /\ NoIdCall /\ NamedCall /\ args.search)
        => ret.data = SelectSeq(FetchedItems(Len(requests)), LAMBDA item :
                          \/ Contains(Lower(item["name"]), Lower(args.name["v"]))
                          \/ Contains(Lower(item["displayName"]), Lower(args.name["v"])))

\* The items of a list that the running call keeps (lines 567-579, 801-821
\* and 1173-1183).
Kept(items) ==
    CASE fn = "tables_get" -> tables_match(args, items)
      [] fn = "buckets_get" -> buckets_match(args, search, items)
      [] fn = "dataChanges_get" ->
             IF search THEN dataChanges_match(args, items) ELSE items

\* C16: when a page request gets a non-200 response the scan stops at once
\* and returns exactly the matches accumulated from the pages fetched
\* before it, in page order (an empty result with total 0 when the first
\* request fails): no item of an earlier page is lost and no later page is
\* requested.
C16_FailureReturnsAccumulated ==
    NoIdCall =>
        \A k \in 1..Len(responses) :
            responses[k].status_code # 200 =>
                /\ k = Len(requests)
                /\ pos = "done" /\ exc = ""
                /\ ret.data = Kept(FetchedItems(k - 1))
                /\ ret.total = Len(ret.data)
                /\ k = 1 => ret = [total |-> 0, data |-> <<>>]

\* A search of the tables for "sales" kept the matches of one full page and
\* then failed on the second request.
C16_Witness ==
    /\ fn = "tables_get" /\ args.search /\ args.name = PyStr("sales")
    /\ pos = "done"
    /\ responses = <<[status_code |-> 200, items |-> 100],
                     [status_code |-> 500, items |-> 0]>>
    /\ ret.total = 67

(***************************************************************************)
(* Properties of buckets_create and buckets_complete.                      *)
(***************************************************************************)

\* The schema dict that buckets_create was given, as a dict or in a file;
\* None if it was given none.
GivenSchema ==
    IF IsDict(bargs.schema) THEN bargs.schema
    ELSE IF IsStr(bargs.schema) /\ IsDict(schema_file) THEN schema_file
    ELSE None

\* The positions in requests of the requests that create a bucket.
CreateRequests ==
    {k \in 1..Len(requests) : Has(requests[k], "method") /\ requests[k].url = "/buckets"}

\* C17: buckets_create resolves its target in the order target_id,
\* target_name, id of the schema: the targetDataset id of the create request
\* is the table found by ID when target_id is given (target_name is then
\* not looked up), else the table found by exact name, else the id the
\* schema carries; with none of the three it returns None and issues no
\* create request.
C17_TargetResolution ==
    bfn = "buckets_create" =>
        /\ \A k \in CreateRequests :
              LET target == requests[k].data.targetDataset.id
              IN  IF ~IsNone(bargs.target_id)
                  THEN /\ k = 2
                       /\ requests[1] = [id |-> bargs.target_id["v"], format |-> "full"]
                       /\ target = bargs.target_id["v"]
                  ELSE IF ~IsNone(bargs.target_name)
                  THEN /\ k = 2
                       /\ requests[1] = [limit |-> 1, offset |-> 0, type |-> "full",
                                         name |-> SpacesToUnderscores(bargs.target_name["v"])]
                       /\ \E i \in 1..serverTotal :
                             /\ ItemAt("tables_get", i)["name"] = requests[1].name
                             /\ target = ItemAt("tables_get", i)["id"]
                  ELSE /\ k = 1
                       /\ target = GivenSchema["id"]
        /\ (bpos = "done" /\ no_target(bargs)
               /\ (GivenSchema = None \/ ~Has(GivenSchema, "id")))
              => (exc = "" /\ bret = None /\ requests = <<>>)

\* A bucket was created for a call that gave a target_id and a target_name:
\* the table was looked up by ID only.
C17_Witness ==
    /\ bfn = "buckets_create" /\ bpos = "done"
    /\ bargs.target_id = PyStr("I2") /\ bargs.target_name = PyStr("Sales 1")
    /\ Len(requests) = 2
    /\ requests[2].data.targetDataset.id = "I2"
    /\ bret # None

\* The call gave a target and a schema that declares an id of its own, and
\* the request that creates the bucket was sent.
TargetAndSchemaId(k) ==
    /\ bfn = "buckets_create" /\ k \in CreateRequests
    /\ ~no_target(bargs)
    /\ GivenSchema # None /\ Has(GivenSchema, "id")

\* The fields of the bucket derive from the fields of the given schema, not
\* from those of the table that was looked up: the schema of the request is
\* what table_to_bucket_schema makes of the compacted schema.
FieldsOfGivenSchema(k) ==
    requests[k].data.schema = table_to_bucket_schema(schema_compact(GivenSchema))

\* C18 as stated: when a target and a schema with an id of its own are both
\* given, the id that the schema declares overrides the resolved target ID
\* in the create request, and the field list of the schema is used.
C18_SchemaIdOverrides ==
    \A k \in 1..Len(requests) :
        TargetAndSchemaId(k) =>
            /\ requests[k].data.targetDataset.id = GivenSchema["id"]
            /\ FieldsOfGivenSchema(k)

\* C18, amended: when a target and a schema with an id of its own are both
\* given, the ID of the table that was looked up overrides the id that the
\* schema declares, in the create request and in the schema dict of the
\* caller, and the field list of the schema (not that of the table) is
\* used.
C18_TargetIdOverrides ==
    \A k \in 1..Len(requests) :
        TargetAndSchemaId(k) =>
            /\ requests[k].data.targetDataset.id =
                  (IF IsNone(args.id) THEN ret["data"][1]["id"] ELSE ret["id"])
            /\ table_schema["id"] = requests[k].data.targetDataset.id
            /\ FieldsOfGivenSchema(k)

\* A bucket was created for the table named "Sales 1" (ID I1) from a schema
\* dict that declares the id T1 and one field of its own.
C18_Witness ==
    /\ TargetAndSchemaId(2)
    /\ bargs.target_name = PyStr("Sales 1") /\ IsNone(bargs.target_id)
    /\ IsDict(bargs.schema) /\ bargs.schema["id"] = "T1"
    /\ requests[2].data.schema # None
    /\ Len(requests[2].data.schema.fields) = 1
    /\ requests[2].data.schema.fields[1].name = "d"
    /\ requests[2].data.targetDataset.id = "I1"
    /\ bret # None

\* C19: buckets_create returns the bucket descriptor of the service if and
\* only if the create request was answered with 201; on every other status,
\* on a name lookup with zero matches, on an ID lookup that fails and on an
\* unreadable or non-dict schema it returns None, and in the lookup and
\* schema failure cases no create request is issued.
C19_DescriptorIffCreated ==
    (bfn = "buckets_create" /\ bpos = "done") =>
        LET created == \E k \in CreateRequests : responses[k].status_code = 201
            refused == \E k \in CreateRequests : responses[k].status_code # 201
            lookup_failed ==
                /\ responses # <<>> /\ ~Has(requests[1], "method")
                /\ \/ responses[1].status_code # 200
                   \/ (IsNone(args.id) /\ ret["total"] = 0)
            schema_failed ==
                /\ bargs.schema # None
                /\ ~IsDict(bargs.schema)
                /\ IsStr(bargs.schema) => ~IsDict(schema_file)
        IN  /\ created <=> bret # None
            /\ created => /\ bret.id = "B9"
                          /\ bret.name = new_bucket_name
            /\ (refused \/ lookup_failed \/ schema_failed) => (exc = "" /\ bret = None)
            /\ (lookup_failed \/ schema_failed) => CreateRequests = {}

\* C20: buckets_complete issues exactly one complete request and returns
\* the body of the response on 201, the parsed error body (not None, no
\* exception) on 400, and None on every other status.
C20_CompleteResult ==
    (bfn = "buckets_complete" /\ bpos = "done") =>
        /\ exc = ""
        /\ requests = <<[method |-> "POST",
                         url |-> "/buckets/" \o bargs.bucket_id \o "/complete"]>>
        /\ Len(responses) = 1
        /\ \E r \in CompleteResponses :
              /\ r.status_code = responses[1].status_code
              /\ r.status_code \in {201, 400} => (bret = r.json /\ bret # None)
              /\ r.status_code \notin {201, 400} => bret = None

\* The service refused to complete bucket B2 with a 400, and the call
\* returned the error body.
C20_Witness ==
    /\ bfn = "buckets_complete" /\ bpos = "done"
    /\ bargs.bucket_id = "B2"
    /\ responses = <<[status_code |-> 400, items |-> 0]>>
    /\ bret = [error |-> "bucket has no files"]

(***************************************************************************)
(* Properties of buckets_files, fileContainers_load and resolve_file_list. *)
(***************************************************************************)
\* The positions in requests of the uploads of files.
UploadIndexes == {k \in 1..Len(requests) : Has(requests[k], "files")}

\* The position in requests of the j-th upload.
UploadAt(j) ==
    CHOOSE k \in UploadIndexes : Cardinality({i \in UploadIndexes : i <= k}) = j

\* The zero-length compressed payload.
EmptyPayload == [filename |-> "empty.csv.gz", content |-> [gzip |-> ""]]

\* buckets_files has returned from a call without a file.
StagedNoFile == fpos = "done" /\ ffn = "buckets_files" /\ IsNone(fargs.file)

\* C21 as stated: buckets_files with file=None returns a result with
\* exactly one receipt (total = 1), whatever the service answered to the
\* upload.
C21_OneReceiptAlways ==
    StagedNoFile => (fret # None /\ fret["total"] = 1 /\ Len(fret["data"]) = 1)

\* C21 amended: buckets_files with file=None sends exactly one upload, of
\* the zero-length compressed payload, to the files of its bucket, and
\* returns a result; total is 1, with the receipt of the service, when the
\* upload was answered with 201, and 0 with no receipt otherwise.
C21_OneUploadReceiptIfAccepted ==
    StagedNoFile =>
        /\ Cardinality(UploadIndexes) = 1
        /\ \A k \in UploadIndexes :
              /\ requests[k] = [method |-> "POST",
                                url |-> "/buckets/" \o fargs.bucket_id \o "/files",
                                files |-> EmptyPayload]
              /\ fret # None
              /\ fret["total"] = Len(fret["data"])
              /\ fret["total"] = IF responses[k].status_code = 201 THEN 1 ELSE 0
              /\ responses[k].status_code = 201 =>
                    fret["data"][1] = [name |-> "empty.csv.gz", state |-> "Success"]

\* buckets_files was called without a file, the service refused the upload
\* with a 500, and the call returned no receipt.
C21_Witness ==
    /\ StagedNoFile
    /\ lfn = ""
    /\ Len(requests) = 1 /\ requests[1].files = EmptyPayload
    /\ responses[1].status_code = 500
    /\ fret = [total |-> 0, data |-> <<>>]

\* C22: fileContainers_load with file=None uploads exactly one zero-length
\* compressed payload to the file container.
C22_EmptyFileToContainer ==
    (fpos = "done" /\ ffn = "fileContainers_load" /\ IsNone(fargs.file)) =>
        /\ Cardinality(UploadIndexes) = 1
        /\ \A k \in UploadIndexes : requests[k].files = EmptyPayload

\* A path of the list that is there and ends in .csv or .csv.gz, in any
\* letter case.
CsvPath(f) ==
    /\ f \in Existing
    /\ \E n \in 1..Len(f) :
          Lower(SubSeq(f, n, Len(f))) \in {".csv", ".csv.gz"}

\* The base name of the path under which an upload sends a file.
SentFor(f) ==
    CASE f = "a.csv" -> "a.csv.gz"
      [] f = "b.csv.gz" -> "b.csv.gz"
      [] f = "d/C.CSV" -> "C.CSV.gz"
      [] OTHER -> ""

\* C23: buckets_files called with a list of paths attempts an upload for
\* exactly the paths that exist and end in .csv or .csv.gz, one per
\* occurrence and in the order of the list, the others being skipped; it
\* returns a result, and when every attempted upload was answered with 201
\* total is the number of those paths.
C23_UploadsExactlyCsvPaths ==
    (fpos = "done" /\ ffn = "buckets_files" /\ ~IsNone(fargs.file) /\ IsList(fargs.file)) =>
        LET wanted == SelectSeq(fargs.file["v"], CsvPath)
        IN  /\ Cardinality(UploadIndexes) = Len(wanted)
            /\ \A j \in 1..Len(wanted) :
                  /\ requests[UploadAt(j)].url = "/buckets/" \o fargs.bucket_id \o "/files"
                  /\ requests[UploadAt(j)].files.filename = SentFor(wanted[j])
            /\ fret # None
            /\ (\A k \in UploadIndexes : responses[k].status_code = 201) =>
                  fret["total"] = Len(wanted)

\* The list [a.csv, missing.csv, b.csv.gz] was staged with two uploads, both
\* accepted, and total is 2.
C23_Witness ==
    /\ fpos = "done" /\ ffn = "buckets_files"
    /\ fargs.file = PyList(<<"a.csv", "missing.csv", "b.csv.gz">>)
    /\ Len(requests) = 2
    /\ responses[1].status_code = 201 /\ responses[2].status_code = 201
    /\ fret["total"] = 2

\* The paths of the file argument of the staging call for which an upload is
\* due, in the caller's order.
WantedPaths ==
    IF IsNone(fargs.file) THEN <<>>
    ELSE IF IsStr(fargs.file) THEN SelectSeq(<<fargs.file["v"]>>, CsvPath)
    ELSE SelectSeq(fargs.file["v"], CsvPath)

RECURSIVE ReceiptsOf(_)
\* The receipts of the accepted ones among the first n uploads, in order.
ReceiptsOf(n) ==
    IF n = 0 THEN <<>>
    ELSE IF responses[UploadAt(n)].status_code = 201
    THEN Append(ReceiptsOf(n - 1), [name |-> SentFor(WantedPaths[n]), state |-> "Success"])
    ELSE ReceiptsOf(n - 1)

\* C24: within one batch of buckets_files or fileContainers_load the uploads
\* are issued in the caller's order: at every moment the uploads sent are
\* those of the first paths of the caller's list; an upload that is not
\* answered with 201 does not stop the batch: a call that returns a result
\* has sent one upload per path; and the receipts in data are those of the
\* accepted uploads, in the caller's order.
C24_BatchInCallerOrder ==
    (ffn \in {"buckets_files", "fileContainers_load"} /\ ~IsNone(fargs.file)) =>
        LET sent == Cardinality(UploadIndexes)
        IN  /\ sent <= Len(WantedPaths)
            /\ \A j \in 1..sent :
                  requests[UploadAt(j)].files.filename = SentFor(WantedPaths[j])
            /\ fpos = "loop" => results["data"] = ReceiptsOf(sent)
            /\ (fpos = "done" /\ fret # None) =>
                  /\ sent = Len(WantedPaths)
                  /\ fret["data"] = ReceiptsOf(sent)

\* Three files were loaded into container FC1 in the caller's order; the
\* second upload was refused, the third was sent all the same, and data
\* holds the receipts of the first and the third.
C24_Witness ==
    /\ fpos = "done" /\ ffn = "fileContainers_load"
    /\ fargs.file = PyList(<<"b.csv.gz", "a.csv", "d/C.CSV">>)
    /\ Len(requests) = 3
    /\ responses[1].status_code = 201
    /\ responses[2].status_code = 500
    /\ responses[3].status_code = 201
    /\ fret["data"] = <<[name |-> "b.csv.gz", state |-> "Success"],
                        [name |-> "C.CSV.gz", state |-> "Success"]>>

\* The positions in requests of the requests that create a file container.
ContainerIndexes ==
    {k \in 1..Len(requests) : requests[k] = [method |-> "POST", url |-> "/fileContainers"]}

\* C25: fileContainers_load creates at most one container per call.  Called
\* without an ID, it creates the container before the first upload, sends
\* every upload to the ID that was created, and that ID is the id of the
\* result; called with an ID, it creates none and sends every upload to the
\* ID it was given.
C25_AtMostOneContainer ==
    ffn = "fileContainers_load" =>
        /\ Cardinality(ContainerIndexes) <= 1
        /\ IF IsNone(fargs.filecontainer_id)
           THEN /\ UploadIndexes # {} =>
                      /\ ContainerIndexes = {1}
                      /\ responses[1].status_code = 201
                      /\ \E id \in {"FC7", "FC8"} :
                            /\ resolved_fid = PyStr(id)
                            /\ \A k \in UploadIndexes :
                                  requests[k].url = "/fileContainers/" \o id \o "/files"
                            /\ (fpos = "done") => (fret # None /\ fret["id"] = PyStr(id))
                /\ (fpos = "done" /\ WantedPaths # <<>> /\ fret # None) => UploadIndexes # {}
           ELSE /\ ContainerIndexes = {}
                /\ \A k \in UploadIndexes :
                      requests[k].url =
                          "/fileContainers/" \o fargs.filecontainer_id["v"] \o "/files"

\* Called without an ID for two files, fileContainers_load created container
\* FC8 once, uploaded both files to it and returned it as the id of the
\* result.
C25_Witness ==
    /\ fpos = "done" /\ ffn = "fileContainers_load"
    /\ IsNone(fargs.filecontainer_id)
    /\ Len(requests) = 3
    /\ requests[1] = [method |-> "POST", url |-> "/fileContainers"]
    /\ requests[2].url = "/fileContainers/FC8/files"
    /\ requests[3].url = "/fileContainers/FC8/files"
    /\ fret["id"] = PyStr("FC8")
    /\ fret["total"] = 2

(***************************************************************************)
(* Properties of upload_file and truncate_table.                           *)
(***************************************************************************)
\* The positions in requests of the requests that complete a bucket.
CompleteIndexes ==
    {k \in 1..Len(requests) :
        /\ Has(requests[k], "url")
        /\ ~Has(requests[k], "files")
        /\ EndsWith(requests[k].url, "/complete")}

\* The positions in requests of the requests that create a bucket.
CreateIndexes ==
    {k \in 1..Len(requests) : Has(requests[k], "url") /\ requests[k].url = "/buckets"}

\* C26: in upload_file, when buckets_files has staged no file (total 0),
\* buckets_complete is never called: no complete request is sent, and the
\* call returns the staging result as it is, without raising.
C26_NothingStagedNoComplete ==
    (lfn = "upload_file" /\ fpos = "done" /\ fret["total"] = 0) =>
        /\ CompleteIndexes = {}
        /\ lpos = "done" => (exc = "" /\ lret = fret /\ lret = [total |-> 0, data |-> <<>>])

\* upload_file was given a.csv, the upload was refused with a 500, and the
\* call returned the empty staging result after the upload, its last
\* request.
C26_Witness ==
    /\ lfn = "upload_file" /\ lpos = "done"
    /\ largs.file = PyStr("a.csv")
    /\ UploadIndexes = {Len(requests)}
    /\ responses[Len(requests)].status_code = 500
    /\ lret = [total |-> 0, data |-> <<>>]

\* C27: within one call of upload_file or truncate_table the bucket is
\* created first: at most one create request, answered with 201 before any
\* upload or complete request; every upload precedes the complete request;
\* the bucket is completed at most once and the complete request is the
\* last request.  If buckets_create gives no bucket, no upload and no
\* complete request is sent and, unless buckets_create raised, the call
\* returns None; the create request, if one was sent, was refused and is
\* the last request.
C27_CreateUploadComplete ==
    lfn \in {"upload_file", "truncate_table"} =>
        /\ Cardinality(CreateIndexes) <= 1
        /\ Cardinality(CompleteIndexes) <= 1
        /\ \A k \in UploadIndexes \cup CompleteIndexes :
              \E c \in CreateIndexes : c < k /\ responses[c].status_code = 201
        /\ \A u \in UploadIndexes : \A c \in CompleteIndexes : u < c
        /\ \A c \in CompleteIndexes : c = Len(requests) /\ lpos = "done"
        /\ (bpos = "done" /\ bret = None) =>
              /\ UploadIndexes = {} /\ CompleteIndexes = {}
              /\ lret = None
              /\ (lpos = "done" /\ exc = "") =>
                    (CreateIndexes = {} \/ responses[Len(requests)].status_code # 201)

\* upload_file staged two files in the bucket it created and completed it:
\* create, upload, upload, complete, after the lookup of the table.
C27_Witness ==
    /\ lfn = "upload_file" /\ lpos = "done"
    /\ Len(requests) = 5
    /\ CreateIndexes = {2}
    /\ UploadIndexes = {3, 4}
    /\ CompleteIndexes = {5}

\* The request that creates the bucket was refused with a 400: upload_file
\* sent nothing more and returned None.
C27_WitnessRefused ==
    /\ lfn = "upload_file" /\ lpos = "done"
    /\ CreateIndexes = {Len(requests)}
    /\ responses[Len(requests)].status_code = 400
    /\ exc = "" /\ lret = None

\* The complete request of the call was answered with this status.
CompleteAnswered(codes) ==
    /\ lfn = "upload_file" /\ lpos = "done"
    /\ CompleteIndexes # {}
    /\ \A k \in CompleteIndexes : responses[k].status_code \in codes

\* C28: when the complete request is answered with a status other than 201
\* and 400 after files were staged, upload_file returns None and does not
\* raise.
C28_HardFailureReturnsNone ==
    CompleteAnswered({404, 500}) => (exc = "" /\ lret = None)

\* The body of the 400 answer of the service to a complete request.
ErrorBody == [error |-> "bucket has no files"]

\* C29 as stated: when the complete request is answered with 400 and a JSON
\* error body, upload_file returns that body as it is, no key added, removed
\* or changed, and does not raise.
C29_ErrorBodyVerbatim ==
    CompleteAnswered({400}) => (exc = "" /\ lret = ErrorBody)

\* C29 amended: when the complete request is answered with 400 and a JSON
\* error body, upload_file does not raise and returns that body with no key
\* removed or changed and two keys added: files, the staging result, and
\* bucket, the bucket that was created.
C29_ErrorBodyWithFilesAndBucket ==
    CompleteAnswered({400}) =>
        /\ exc = ""
        /\ DOMAIN lret = DOMAIN ErrorBody \cup {"files", "bucket"}
        /\ \A k \in DOMAIN ErrorBody : lret[k] = ErrorBody[k]
        /\ lret["files"] = fret
        /\ lret["bucket"] = bret
        /\ fret["total"] > 0
        /\ bret["id"] = "B9"

\* upload_file staged a.csv, the service refused to complete the bucket with
\* a 400, and the call returned the error body together with files and
\* bucket.
C29_Witness ==
    /\ CompleteAnswered({400})
    /\ largs.file = PyStr("a.csv")
    /\ lret["error"] = "bucket has no files"
    /\ lret["files"]["total"] = 1
    /\ lret["bucket"]["id"] = "B9"

\* The smaller of two numbers.
Min(a, b) == IF a <= b THEN a ELSE b

\* upload_file, called after truncate_table for the same target, has
\* finished, and the service gave both calls the same answers, as far as
\* both asked: the same generated bucket name, the same table from the
\* lookup, and the same answer to each request they both sent.
SameAnswers ==
    /\ prev # None /\ lfn = "upload_file" /\ lpos = "done"
    /\ new_bucket_name = prev.name
    /\ ret = prev.table
    /\ \A k \in 1..Min(Len(responses), Len(prev.responses)) :
          responses[k] = prev.responses[k]

\* C30 as stated: for the same answers of the service, truncate_table and
\* upload_file with file=None and operation TruncateAndInsert send the same
\* sequence of requests and give the same result, also when the zero-length
\* upload is refused.
C30_TruncateIsUploadOfNoFile ==
    SameAnswers => (requests = prev.requests /\ exc = "" /\ lret = prev.lret)

\* C30 amended: for the same answers of the service the two calls send the
\* same requests as far as both go: the lookup of the table, the create
\* request and one upload of the zero-length payload.  When no bucket is
\* created, both stop there and return None.  When the upload is accepted,
\* both complete the bucket; for a 201 or 400 answer upload_file returns what
\* truncate_table returns with the keys files and bucket added, and for any
\* other answer truncate_table returns None while upload_file raises
\* TypeError.  When the upload is refused, truncate_table still completes
\* the bucket and returns the outcome of that, while upload_file sends no
\* complete request and returns the empty staging result.
C30_TruncateAndUploadOfNoFile ==
    SameAnswers =>
        /\ \A k \in 1..Min(Len(requests), Len(prev.requests)) :
              requests[k] = prev.requests[k]
        /\ bret = prev.bucket
        /\ IF bret = None
           THEN requests = prev.requests /\ exc = "" /\ lret = None /\ prev.lret = None
           ELSE /\ Cardinality(UploadIndexes) = 1
                /\ \A u \in UploadIndexes :
                      /\ requests[u].files = EmptyPayload
                      /\ prev.requests =
                            SubSeq(requests, 1, u)
                            \o <<[method |-> "POST", url |-> "/buckets/B9/complete"]>>
                      /\ IF responses[u].status_code = 201
                         THEN /\ requests = prev.requests
                              /\ IF responses[u + 1].status_code \in {201, 400}
                                 THEN /\ exc = ""
                                      /\ DOMAIN lret = DOMAIN prev.lret \cup {"files", "bucket"}
                                      /\ \A key \in DOMAIN prev.lret : lret[key] = prev.lret[key]
                                      /\ lret["files"] = fret /\ fret["total"] = 1
                                      /\ lret["bucket"] = bret
                                 ELSE exc = "TypeError" /\ prev.lret = None
                         ELSE /\ Len(requests) = u
                              /\ exc = ""
                              /\ lret = [total |-> 0, data |-> <<>>]
                              /\ lret # prev.lret

\* The zero-length upload was refused in both calls: truncate_table went on
\* to complete the bucket, upload_file stopped after the upload and returned
\* the empty staging result.
C30_Witness ==
    /\ SameAnswers
    /\ bret # None
    /\ Len(prev.requests) = Len(requests) + 1
    /\ responses[Len(requests)].status_code = 400
    /\ prev.responses[Len(prev.requests)].status_code = 201
    /\ prev.lret = [id |-> "B1", state |-> [descriptor |-> "Queued"]]
    /\ lret = [total |-> 0, data |-> <<>>]

\* The URLs of the requests of a log that upload to a bucket or complete it.
BucketUrls(log) ==
    {log[k].url : k \in {j \in 1..Len(log) :
        /\ Has(log[j], "url")
        /\ log[j].url # "/buckets"
        /\ StartsWith(log[j].url, "/buckets/")}}

\* C31 as stated: every call of upload_file or truncate_table that has
\* returned sent exactly one request that creates a bucket; its uploads and
\* its complete request went to the bucket whose ID the answer to that
\* request carried, and to no other; and a truncate_table that follows an
\* upload_file for the same target did not use the bucket of the earlier
\* call.
C31_ExactlyOneCreate ==
    (lfn \in {"upload_file", "truncate_table"} /\ lpos = "done" /\ exc = "") =>
        /\ Cardinality(CreateIndexes) = 1
        /\ \A c \in CreateIndexes :
              BucketUrls(requests) \subseteq
                 UNION {{"/buckets/" \o r.json.id \o "/files",
                         "/buckets/" \o r.json.id \o "/complete"} :
                        r \in {x \in CreateResponses(requests[c].data) :
                                  x.status_code = 201}}
        /\ prev # None => BucketUrls(requests) \cap BucketUrls(prev.requests) = {}

\* C31, amended: a call of upload_file or truncate_table sends at most one
\* request that creates a bucket: exactly one before any upload or complete
\* request and in every call that returns a result, none or one in a call
\* that returns None.  Its uploads and its complete request go to the bucket
\* whose ID the answer to that request carried, and to no other.  A
\* truncate_table that follows an upload_file for the same target works on a
\* bucket of its own: none of its uploads or complete requests goes to the
\* bucket of the earlier call, and the two buckets have different IDs.
C31_OwnBucketOnly ==
    lfn \in {"upload_file", "truncate_table"} =>
        /\ Cardinality(CreateIndexes) <= 1
        /\ (lpos = "done" /\ exc = "" /\ lret # None) => Cardinality(CreateIndexes) = 1
        /\ BucketUrls(requests) # {} =>
              /\ Cardinality(CreateIndexes) = 1
              /\ \A c \in CreateIndexes :
                    \E r \in CreateResponses(requests[c].data) :
                       /\ r.status_code = 201
                       /\ bret = r.json
                       /\ BucketUrls(requests) \subseteq
                             {"/buckets/" \o r.json.id \o "/files",
                              "/buckets/" \o r.json.id \o "/complete"}
        /\ prev # None =>
              /\ BucketUrls(requests) \cap BucketUrls(prev.requests) = {}
              /\ (bret # None /\ prev.bucket # None) => bret.id # prev.bucket.id

\* upload_file loaded a file into bucket B9 and completed it; the
\* truncate_table that followed for the same target created bucket B10,
\* uploaded the empty file to it and completed it.
C31_Witness ==
    /\ prev # None /\ lfn = "truncate_table" /\ lpos = "done"
    /\ BucketUrls(prev.requests) = {"/buckets/B9/files", "/buckets/B9/complete"}
    /\ BucketUrls(requests) = {"/buckets/B10/files", "/buckets/B10/complete"}
    /\ prev.responses[Len(prev.responses)].status_code = 201
    /\ responses[Len(responses)].status_code = 201

(***************************************************************************)
(* Further properties of tables_get and buckets_create.                    *)
(***************************************************************************)
\* C35: tables_get terminates against a service that holds finitely many
\* tables: a pass of its loop that does not end the loop moves on to a later
\* offset, by a positive page size, that is still within the tables of the
\* service, so only finitely many passes can follow one another.
C35_ScanAdvances ==
    [][(fn = "tables_get" /\ pos = "loop" /\ pos' = "loop") =>
          /\ params.limit > 0
          /\ params'.offset > params.offset
          /\ params'.offset <= serverTotal]_vars

\* buckets_create has finished with a schema for the bucket operation that
\* has no fields attribute.
ResolvedWithoutFields ==
    /\ bfn = "buckets_create" /\ bpos = "done" /\ exc = ""
    /\ table_schema # None /\ IsDict(table_schema)
    /\ ~Has(table_schema, "fields")

\* C36: buckets_create sends the create request only with a derived bucket
\* schema: no create request carries None as its schema, and when the schema
\* that was resolved has no fields attribute the call returns None and sends
\* no create request.
C36_NoFieldsNoCreate ==
    /\ \A k \in CreateRequests : requests[k].data.schema # None
    /\ ResolvedWithoutFields => (bret = None /\ CreateRequests = {})

\* C37: the bucket schema that buckets_create sends always carries the
\* default parse options, whatever parseOptions the caller's schema dict or
\* schema file holds.
C37_DefaultParseOptionsSent ==
    bfn = "buckets_create" =>
        \A k \in CreateRequests :
            requests[k].data.schema # None =>
                requests[k].data.schema.parseOptions =
                    [fieldsDelimitedBy |-> ",",
                     fieldsEnclosedBy |-> "\"",
                     headerLinesToIgnore |-> 1,
                     charset |-> [id |-> "Encoding=UTF-8"],
                     type |-> [id |-> "Schema_File_Type=Delimited"]]

\* The schema file holds parse options of its own (fields delimited by ";")
\* and the create request was sent with the default ones.
C37_Witness ==
    /\ bfn = "buckets_create" /\ bpos = "done"
    /\ ~IsDict(bargs.schema) /\ IsStr(bargs.schema)
    /\ IsDict(schema_file) /\ Has(schema_file, "parseOptions")
    /\ schema_file["parseOptions"]["fieldsDelimitedBy"] = ";"
    /\ CreateRequests # {}
    /\ \A k \in CreateRequests :
          /\ requests[k].data.schema # None
          /\ requests[k].data.schema.parseOptions.fieldsDelimitedBy = ","

(***************************************************************************)
(* Properties of dataChanges_is_valid.                                     *)
(***************************************************************************)
\* C38: dataChanges_is_valid(datachange_id) sends one validate request, for
\* the data change that its parameter names, and returns True exactly when
\* the answer to it is a body without an error attribute (status 200 of
\* this service), False otherwise.
C38_ValidatesItsOwnId ==
    (fn = "dataChanges_is_valid" /\ pos = "done") =>
        /\ requests = <<[url |-> "/dataChanges/" \o args.datachange_id \o "/validate"]>>
        /\ ret["v"] <=> (responses[1].status_code = 200)

(***************************************************************************)
(* Properties of the bearer token and the request headers.                 *)
(***************************************************************************)
\* A step in which an API method sent its request.
ApiRequestSent == Len(requests') = Len(requests) + 1

\* The Authorization values made of a token issued before the last reset.
BeforeReset == {"Bearer " \o AccessToken(k) : k \in 1..issued_at_reset}

\* C32: after reset_bearer_token the next API call, of any method and with
\* any headers, asks the authorization service for a new token, and no API
\* request goes out with a token that was issued before the reset.
C32_ResetForcesNewToken ==
    [][ApiRequestSent =>
          /\ sent_headers'[Len(sent_headers')]["Authorization"] \notin BeforeReset
          /\ (fn = "reset_bearer_token" =>
                /\ Len(token_requests') = Len(token_requests) + 1
                /\ token_requests'[Len(token_requests')].before = Len(requests'))]_vars

\* A step of get_bearer_token called by the program: Tick moves the clock and
\* every other call leaves another name in fn.
GetBearerTokenStep == fn' = "get_bearer_token" /\ clock' = clock

\* C33: get_bearer_token sends a token request exactly when no token is held
\* or the held one is more than 900 seconds old; otherwise it returns the
\* held token and sends nothing; when the request fails it returns "" and no
\* token is held, so the next call asks again; when it succeeds the new
\* token is held, stamped with the time, and returned.
C33_TokenRequestedExactlyWhenNeeded ==
    [][GetBearerTokenStep =>
          LET held == bearer_token # None
              old == held /\ clock - bearer_token_timestamp["v"] > 900
              asked == token_requests' # token_requests
              answer == token_requests'[Len(token_requests')]
          IN  /\ asked <=> (~held \/ old)
              /\ requests' = requests
              /\ asked => /\ Len(token_requests') = Len(token_requests) + 1
                          /\ answer.url = "/token"
              /\ ~asked => /\ ret' = bearer_token
                           /\ bearer_token' = bearer_token
                           /\ bearer_token_timestamp' = bearer_token_timestamp
              /\ (asked /\ answer.status_code # 200) =>
                    /\ ret' = PyStr("")
                    /\ bearer_token' = None
              /\ (asked /\ answer.status_code = 200) =>
                    /\ ret' = PyStr(AccessToken(issued'))
                    /\ issued' = issued + 1
                    /\ bearer_token' = ret'
                    /\ bearer_token_timestamp' = PyInt(clock)]_vars

\* token1 was obtained and never reset, no API call was made, and the last
\* call, get_bearer_token, returned "": it found token1 more than 900
\* seconds old and its token request, the second one sent, was refused.
C33_Witness ==
    /\ fn = "get_bearer_token"
    /\ issued_at_reset = 0
    /\ requests = <<>>
    /\ Len(token_requests) = 2
    /\ token_requests[1].status_code = 200
    /\ token_requests[2].status_code = 401
    /\ clock > 900
    /\ ret = PyStr("")
    /\ bearer_token = None

\* C34: whatever calls were made, the shared header dicts hold only their
\* Content-Type entry: the http methods do not change the headers they get.
C34_SharedHeadersUntouched ==
    /\ CONTENT_APP_JSON = Put(<<>>, "Content-Type", "application/json")
    /\ CONTENT_FORM = Put(<<>>, "Content-Type", "application/x-www-form-urlencoded")

====
